---- MODULE Spec2Model ----
(***************************************************************************)
(* Model of the esports EV finder: the SQLite market store                 *)
(* (src/database.py), the market matcher (src/functions.py) and the        *)
(* orchestration layer (src/api.py).                                       *)
(*                                                                         *)
(* Conventions.                                                            *)
(*  - Time is counted in minutes; `now` is SQLite's datetime('now').       *)
(*  - Decimal odds are fixed-point integers in hundredths (1.80 = 180).    *)
(*  - Match scores are fixed-point integers in thousandths (0.6 = 600).    *)
(*  - NULL is the SQL NULL / Python None of a nullable numeric column.     *)
(*  - Columns that no operation ever reads back (scraped_at, created_at,   *)
(*    placed_at, the AUTOINCREMENT id of match_mappings, the stored        *)
(*    probabilities, the descriptive bet columns) are left out.            *)
(*  - Foreign keys are declared in the schema but SQLite only enforces     *)
(*    them after PRAGMA foreign_keys = ON, which the program never issues: *)
(*    no operation is constrained by them.                                 *)
(***************************************************************************)
EXTENDS Integers, Sequences, FiniteSets, TLC

NULL == -1

(***************************************************************************)
(* Bounds of the model.                                                    *)
(***************************************************************************)
MaxTicks == 3
MaxBets == 1

(***************************************************************************)
(* Program constants.                                                      *)
(***************************************************************************)
CaptureWindow == 5
TickMinutes == 5
ApiThreshold == 600
EmbeddingThreshold == 600
FallbackThreshold == 700
HourMinutes == 60
TwoHoursMinutes == 120
TimeBonusNear == 200
TimeBonusFar == 100
SportBonus == 100
ScoreCap == 1000

(***************************************************************************)
(* Helpers.                                                                *)
(***************************************************************************)
Min(a, b) == IF a < b THEN a ELSE b
Abs(a) == IF a < 0 THEN 0 - a ELSE a

\* Integer quotient rounded toward zero.
Quot(n, d) == IF n >= 0 THEN n \div d ELSE 0 - ((0 - n) \div d)

Range(s) == { s[i] : i \in DOMAIN s }

\* Python truthiness of a nullable number: None and 0 are false.
Truthy(x) == x # NULL /\ x # 0

RECURSIVE SortBy(_, _)
\* The ids of S as a sequence ordered by key[id], ties by id (ORDER BY).
SortBy(S, key) ==
    IF S = {} THEN << >>
    ELSE LET first == CHOOSE x \in S : \A y \in S : key[x] <= key[y]
         IN  << first >> \o SortBy(S \ {first}, key)

\* round(n / d, 0) for d > 0, Python's round-half-to-even.
RoundHalfEven(n, d) ==
    LET q == n \div d
        rem == n % d
    IN  IF 2 * rem < d THEN q
        ELSE IF 2 * rem > d THEN q + 1
        ELSE IF q % 2 = 0 THEN q ELSE q + 1

\* A variant of the conversion that treats a negative price like a positive one.
american_to_decimal_Unsigned(american_odds) == Abs(american_odds) + 100

(***************************************************************************)
(* Odds math (src/scraper.py).  Decimal odds are in hundredths.            *)
(***************************************************************************)
\* american_to_decimal: round(price / 100 + 1, 2) for a positive price,
\* round(100 / abs(price) + 1, 2) otherwise.
american_to_decimal(american_odds) ==
    IF american_odds > 0 THEN american_odds + 100
    ELSE RoundHalfEven(10000, Abs(american_odds)) + 100

\* multiplicative_devig: the fair odds (1/h + 1/a) / (1/h) = (h + a) / a and
\* (h + a) / h, as exact fractions.
multiplicative_devig(home_odds, away_odds) ==
    [fair_home |-> [num |-> home_odds + away_odds, den |-> away_odds],
     fair_away |-> [num |-> home_odds + away_odds, den |-> home_odds]]

\* power_method_devig with k = 1.07 on the listed prices: the fair odds in
\* units of 1e-7 and their reciprocals, the fair probabilities, in units
\* of 1e-9, as the function computes them.
power_method_devig(home_odds, away_odds) ==
    IF home_odds = 167 /\ away_odds = 230
    THEN [fair_home |-> 17099992, fair_away |-> 24084524,
          home_prob |-> 584795606, away_prob |-> 415204394]
    ELSE [fair_home |-> 19093280, fair_away |-> 20997132,
          home_prob |-> 523744476, away_prob |-> 476255524]

\* The prices of a market dict of PinnacleScraper.get_markets: fair odds
\* rounded to 2 places, fair probabilities rounded to 6 places (units of
\* 1e-6), for the power and the proportional method.
market_data_prices(home_odds_raw, away_odds_raw) ==
    LET mult == multiplicative_devig(home_odds_raw, away_odds_raw)
        power == power_method_devig(home_odds_raw, away_odds_raw)
    IN  [home_fair_odds |-> RoundHalfEven(power.fair_home, 100000),
         away_fair_odds |-> RoundHalfEven(power.fair_away, 100000),
         home_mult_odds |-> RoundHalfEven(100 * mult.fair_home.num, mult.fair_home.den),
         away_mult_odds |-> RoundHalfEven(100 * mult.fair_away.num, mult.fair_away.den),
         home_fair_prob |-> RoundHalfEven(power.home_prob, 1000),
         away_fair_prob |-> RoundHalfEven(power.away_prob, 1000),
         home_mult_prob |-> RoundHalfEven(1000000 * mult.fair_home.den, mult.fair_home.num),
         away_mult_prob |-> RoundHalfEven(1000000 * mult.fair_away.den, mult.fair_away.num)]

(***************************************************************************)
(* What the two external books can list (the data the scrapers return).    *)
(***************************************************************************)
PinnacleIds == {"p1", "p2"}
Cs500Ids == {"c1", "c2"}
\* The retail ids of the matcher runs: c3 is a second series of the teams
\* of c1 on the same day, c4 lists the teams under their long names.
MatcherCs500Ids == {"c1", "c2", "c3", "c4"}
Backends == {"embedding", "fallback"}
Sides == {"home", "away"}

\* An event text is abstracted by the set of keyword substrings its
\* lower-cased form contains.
Keywords == {"league of legends", "lol", "cs2", "counter-strike", "counter strike"}

\* The American prices the reference book can quote for a market, home
\* and away.
FirstPrices == [home |-> 0 - 150, away |-> 130]
SecondPrices == [home |-> 0 - 120, away |-> 100]
RawPrices == {FirstPrices, SecondPrices}

\* De-vigged prices of a market at those quotes: power-method pair
\* (home_fair_odds/away_fair_odds) and proportional pair (mult), with the
\* fair probabilities of each.
FirstQuote ==
    market_data_prices(american_to_decimal(FirstPrices.home), american_to_decimal(FirstPrices.away))
SecondQuote ==
    market_data_prices(american_to_decimal(SecondPrices.home), american_to_decimal(SecondPrices.away))
Quotes == {FirstQuote, SecondQuote}

BetOdds == {200}

PinnacleListing(id) ==
    IF id = "p1"
    THEN [home_team |-> "G2", away_team |-> "Vitality", event |-> {"cs2"},
          start_times |-> {10}, quotes |-> Quotes]
    ELSE [home_team |-> "G2 Esports", away_team |-> "Vitality", event |-> {"cs2"},
          start_times |-> {100}, quotes |-> {FirstQuote}]

Cs500Listing(id) ==
    IF id = "c1"
    THEN [home_team |-> "G2", away_team |-> "Vitality", event_name |-> {"cs2"},
          start_time |-> 10, status |-> "open", home_odds |-> 190, away_odds |-> 200,
          moneylines |-> BOOLEAN]
    ELSE IF id = "c2"
    THEN [home_team |-> "G2", away_team |-> "Team Vitality", event_name |-> {"cs2"},
          start_time |-> 100, status |-> "open", home_odds |-> 185, away_odds |-> 205,
          moneylines |-> {TRUE}]
    ELSE IF id = "c3"
    THEN [home_team |-> "G2", away_team |-> "Vitality", event_name |-> {"cs2"},
          start_time |-> 40, status |-> "open", home_odds |-> 195, away_odds |-> 195,
          moneylines |-> {TRUE}]
    ELSE [home_team |-> "G2 Esports", away_team |-> "Team Vitality", event_name |-> {"cs2"},
          start_time |-> 10, status |-> "open", home_odds |-> 171, away_odds |-> 230,
          moneylines |-> {TRUE}]

(***************************************************************************)
(* Event normalizer and market matcher (src/functions.py).                 *)
(***************************************************************************)
\* The sport tag of an event text; NoSport is Python's None.
NoSport == "none"

infer_sport(event) ==
    IF event = {} THEN NoSport
    ELSE IF "league of legends" \in event \/ "lol" \in event THEN "lol"
    ELSE IF "cs2" \in event \/ "counter-strike" \in event \/ "counter strike" \in event THEN "cs2"
    ELSE NoSport

\* canonical_team on the listed names: _norm_team lower-cases, then
\* TEAM_ALIASES maps "g2 esports" to "g2" and "team vitality" to "vitality".
canonical_team(name) ==
    IF name \in {"G2", "G2 Esports"} THEN "g2"
    ELSE IF name \in {"Vitality", "Team Vitality"} THEN "vitality"
    ELSE name

\* Cosine similarity of the sentence embeddings of two team names: the
\* backend is deterministic, and these are its values on the listed names.
EmbeddingSimilarity(team1, team2) ==
    IF team1 = team2 THEN 1000
    ELSE IF {team1, team2} = {"G2", "G2 Esports"} THEN 800
    ELSE IF {team1, team2} = {"Vitality", "Team Vitality"} THEN 850
    ELSE 200

\* difflib.SequenceMatcher(None, a.lower(), b.lower()).ratio() on the
\* listed names.
SequenceRatio(team1, team2) ==
    IF team1 = team2 THEN 1000
    ELSE IF {team1, team2} = {"G2", "G2 Esports"} THEN 333
    ELSE IF {team1, team2} = {"Vitality", "Team Vitality"} THEN 762
    ELSE 0

team_similarity(be, team1, team2) ==
    IF be = "embedding"
    THEN (IF team1 = "" \/ team2 = "" THEN 0 ELSE EmbeddingSimilarity(team1, team2))
    ELSE SequenceRatio(team1, team2)

\* start_time NULL makes the parse raise; the bare except leaves the bonus 0.
time_score(p_start, c_start) ==
    IF p_start = NULL \/ c_start = NULL THEN 0
    ELSE IF Abs(p_start - c_start) < HourMinutes THEN TimeBonusNear
    ELSE IF Abs(p_start - c_start) < TwoHoursMinutes THEN TimeBonusFar
    ELSE 0

sport_score(p_event, c_event) ==
    IF infer_sport(p_event) = infer_sport(c_event) THEN SportBonus ELSE 0

ai_match_score(be, p_game, c_game) ==
    LET home_sim == team_similarity(be, p_game.home_team, c_game.home_team)
        away_sim == team_similarity(be, p_game.away_team, c_game.away_team)
        team_score == (home_sim + away_sim) \div 2
    IN  IF be = "embedding"
        THEN Min(ScoreCap, team_score + time_score(p_game.start_time, c_game.start_time)
                                      + sport_score(p_game.event, c_game.event_name))
        ELSE team_score

\* Variant: find_best_match accepts every candidate with a positive score.
Threshold_None(be) == 0

\* The acceptance threshold of find_best_match in the backend in use.
Threshold(be) == IF be = "embedding" THEN EmbeddingThreshold ELSE FallbackThreshold

\* No candidate: best_match is None.
NoMatch == [match_id |-> "none"]

RECURSIVE BestMatchFrom_LastWins(_, _, _, _, _)
\* Variant: a candidate above the threshold replaces the running best
\* whatever the running best's score.
BestMatchFrom_LastWins(be, p_game, games, i, best) ==
    IF i > Len(games) THEN best
    ELSE LET score == ai_match_score(be, p_game, games[i])
         IN  IF score > Threshold(be)
             THEN BestMatchFrom_LastWins(be, p_game, games, i + 1,
                                         [game |-> games[i], score |-> score])
             ELSE BestMatchFrom_LastWins(be, p_game, games, i + 1, best)

RECURSIVE BestMatchFrom(_, _, _, _, _)
\* The loop of find_best_match from candidate i on, with the running best.
BestMatchFrom(be, p_game, games, i, best) ==
    IF i > Len(games) THEN best
    ELSE LET score == ai_match_score(be, p_game, games[i])
         IN  IF score > best.score /\ score > Threshold(be)
             THEN BestMatchFrom(be, p_game, games, i + 1, [game |-> games[i], score |-> score])
             ELSE BestMatchFrom(be, p_game, games, i + 1, best)

find_best_match(be, p_game, games) ==
    BestMatchFrom(be, p_game, games, 1, [game |-> NoMatch, score |-> 0])

(***************************************************************************)
(* The market store (src/database.py).  pinnacle_markets and cs500_markets *)
(* are functions from the stored primary keys to rows, match_mappings is a *)
(* set of rows, bets is the sequence of rows in AUTOINCREMENT id order.    *)
(***************************************************************************)
VARIABLES pinnacle_markets, cs500_markets, match_mappings, cs500_match_ids,
          bets, now, inflight, backend, manual_inflight

\* Outside the store: the module state of the scheduler endpoints
\* (src/api.py: scheduler_config and the jobs of the AsyncIOScheduler, in
\* the order they were added), and a pair of American prices handed to the
\* scraper's conversion with the pair of its results.
VARIABLES scheduler_config, jobs, price_pair, decimal_pair

aside == << scheduler_config, jobs, price_pair, decimal_pair >>

vars == << pinnacle_markets, cs500_markets, match_mappings, cs500_match_ids,
           bets, now, inflight, backend, manual_inflight, aside >>

\* The batches scrape_data can return at time t: get_matchups drops every
\* matchup whose start time is before the scrape.  A batch is keyed by id.
PinnacleMarket(id, quote, start) ==
    [id |-> id, event |-> PinnacleListing(id).event,
     home_team |-> PinnacleListing(id).home_team, away_team |-> PinnacleListing(id).away_team,
     home_fair_odds |-> quote.home_fair_odds, away_fair_odds |-> quote.away_fair_odds,
     home_mult_odds |-> quote.home_mult_odds, away_mult_odds |-> quote.away_mult_odds,
     home_fair_prob |-> quote.home_fair_prob, away_fair_prob |-> quote.away_fair_prob,
     home_mult_prob |-> quote.home_mult_prob, away_mult_prob |-> quote.away_mult_prob,
     start_time |-> start]

PinnacleBatches(t) ==
    LET listed(id) == { PinnacleMarket(id, q, st) :
                          q \in PinnacleListing(id).quotes,
                          st \in { x \in PinnacleListing(id).start_times : x >= t } }
    IN  UNION { { b \in [ S -> UNION { listed(id) : id \in S } ] : \A id \in S : b[id].id = id }
                : S \in SUBSET PinnacleIds }

\* The batches CS500Scraper.get_markets can return for the requested ids:
\* one parsed market per id that was fetched, with or without a moneyline.
Cs500Market(id, moneyline) ==
    [match_id |-> id, event_name |-> Cs500Listing(id).event_name,
     home_team |-> Cs500Listing(id).home_team, away_team |-> Cs500Listing(id).away_team,
     start_time |-> Cs500Listing(id).start_time, status |-> Cs500Listing(id).status,
     moneyline |-> moneyline,
     home_odds |-> Cs500Listing(id).home_odds, away_odds |-> Cs500Listing(id).away_odds]

Cs500Batches(ids) ==
    LET parsed(id) == { Cs500Market(id, ml) : ml \in Cs500Listing(id).moneylines }
    IN  UNION { { b \in [ S -> UNION { parsed(id) : id \in S } ] : \A id \in S : b[id].match_id = id }
                : S \in SUBSET ids }

\* What one request of the retail fan-out can end in.
FetchOutcomes == {"ok", "http_error", "exception", "parse_error"}

\* fetch_single_market returned None.
NoMarket == [match_id |-> "none"]

\* Variant: a response with an HTTP error status is parsed like a good one.
fetch_single_market_Unchecked(match_id, outcome, moneyline) ==
    IF outcome \in {"ok", "http_error"} THEN Cs500Market(match_id, moneyline) ELSE NoMarket

\* fetch_single_market: a status other than 200, an exception of the
\* request and a parse error of _parse_market_data all give None.
fetch_single_market(match_id, outcome, moneyline) ==
    IF outcome = "ok" THEN Cs500Market(match_id, moneyline) ELSE NoMarket

\* CS500Scraper.get_markets: one task per match id, gathered; the None
\* results are filtered out.  The batch is keyed by match id.
cs500_get_markets(match_ids, outcome, moneyline) ==
    LET results == [ id \in match_ids |-> fetch_single_market(id, outcome[id], moneyline[id]) ]
        markets == { id \in match_ids : results[id] # NoMarket }
    IN  [ id \in markets |-> results[id] ]

\* The payloads the retail API can answer with for the ids: with or without
\* a moneyline, as listed.
MoneylinePayloads(ids) ==
    { ml \in [ids -> BOOLEAN] : \A id \in ids : ml[id] \in Cs500Listing(id).moneylines }

\* store_pinnacle_markets: every stored row is marked inactive, then each
\* market of the batch is written with INSERT OR REPLACE, which deletes the
\* row of the same id and inserts a new one: the columns the statement does
\* not list (the closing odds and their timestamp) take their default NULL.
PinnacleRow(market) ==
    [event |-> market.event, sport |-> infer_sport(market.event),
     home_team |-> market.home_team, away_team |-> market.away_team,
     home_fair_odds |-> market.home_fair_odds, away_fair_odds |-> market.away_fair_odds,
     home_mult_odds |-> market.home_mult_odds, away_mult_odds |-> market.away_mult_odds,
     home_fair_prob |-> market.home_fair_prob, away_fair_prob |-> market.away_fair_prob,
     home_mult_prob |-> market.home_mult_prob, away_mult_prob |-> market.away_mult_prob,
     home_closing_odds |-> NULL, away_closing_odds |-> NULL, closing_captured_at |-> NULL,
     start_time |-> market.start_time, is_active |-> 1]

\* Variant: the rows that are not in the batch stay as they were.
store_pinnacle_markets_KeepActive(pm, batch) ==
    [ id \in (DOMAIN pm) \cup { batch[k].id : k \in DOMAIN batch } |->
        IF \E k \in DOMAIN batch : batch[k].id = id
        THEN PinnacleRow(batch[CHOOSE k \in DOMAIN batch : batch[k].id = id])
        ELSE pm[id] ]

store_pinnacle_markets(pm, batch) ==
    [ id \in (DOMAIN pm) \cup { batch[k].id : k \in DOMAIN batch } |->
        IF \E k \in DOMAIN batch : batch[k].id = id
        THEN PinnacleRow(batch[CHOOSE k \in DOMAIN batch : batch[k].id = id])
        ELSE [pm[id] EXCEPT !.is_active = 0] ]

\* store_cs500_markets: the same wholesale replace; a market with no
\* moneyline entry is skipped.
Cs500Row(market) ==
    [event_name |-> market.event_name, sport |-> infer_sport(market.event_name),
     home_team |-> market.home_team, away_team |-> market.away_team,
     home_odds |-> market.home_odds, away_odds |-> market.away_odds,
     start_time |-> market.start_time, status |-> market.status, is_active |-> 1]

store_cs500_markets(cm, batch) ==
    LET stored == { k \in DOMAIN batch : batch[k].moneyline }
    IN  [ id \in (DOMAIN cm) \cup { batch[k].match_id : k \in stored } |->
            IF \E k \in stored : batch[k].match_id = id
            THEN Cs500Row(batch[CHOOSE k \in stored : batch[k].match_id = id])
            ELSE [cm[id] EXCEPT !.is_active = 0] ]

\* Variant: the mapping row is not written.
store_match_mapping_Dropped(mm, pinnacle_id, cs500_match_id, confidence_score) == mm

\* Variant: a retail market keeps one mapping row only.
store_match_mapping_UniqueRetail(mm, pinnacle_id, cs500_match_id, confidence_score) ==
    { r \in mm : r.cs500_match_id # cs500_match_id }
    \cup { [pinnacle_id |-> pinnacle_id, cs500_match_id |-> cs500_match_id,
            confidence_score |-> confidence_score] }

\* store_match_mapping: INSERT OR REPLACE under UNIQUE(pinnacle_id, cs500_match_id).
store_match_mapping(mm, pinnacle_id, cs500_match_id, confidence_score) ==
    { r \in mm : ~(r.pinnacle_id = pinnacle_id /\ r.cs500_match_id = cs500_match_id) }
    \cup { [pinnacle_id |-> pinnacle_id, cs500_match_id |-> cs500_match_id,
            confidence_score |-> confidence_score] }

StartKey(table) == [ id \in DOMAIN table |-> table[id].start_time ]

\* get_active_pinnacle_markets / get_active_cs500_markets: ids in ORDER BY start_time.
get_active_pinnacle_markets(pm) ==
    SortBy({ id \in DOMAIN pm : pm[id].is_active = 1 }, StartKey(pm))

get_active_cs500_markets(cm) ==
    SortBy({ id \in DOMAIN cm : cm[id].is_active = 1 }, StartKey(cm))

get_mapped_pinnacle_ids(mm) == { r.pinnacle_id : r \in mm }

clear_match_mappings(mm) == {}

\* The rows of the join of get_matched_markets before its WHERE clause.
MappingJoin(pm, cm, mm) ==
    { r \in mm : r.pinnacle_id \in DOMAIN pm /\ r.cs500_match_id \in DOMAIN cm }

MatchedRow(r) ==
    [pinnacle_id |-> r.pinnacle_id, cs500_id |-> r.cs500_match_id,
     confidence_score |-> r.confidence_score]

\* Variant: the EV listing does not test the retail market's active flag.
get_matched_markets_AnyRetail(pm, cm, mm) ==
    LET rows == { r \in MappingJoin(pm, cm, mm) : pm[r.pinnacle_id].is_active = 1 }
        ordered == SortBy(rows, [ r \in rows |-> pm[r.pinnacle_id].start_time ])
    IN  [ i \in DOMAIN ordered |-> MatchedRow(ordered[i]) ]

\* get_matched_markets: the mapping rows joined with both market tables,
\* both markets active, ORDER BY p.start_time (the identifying columns of
\* each row).
get_matched_markets(pm, cm, mm) ==
    LET rows == { r \in MappingJoin(pm, cm, mm) :
                    pm[r.pinnacle_id].is_active = 1 /\ cm[r.cs500_match_id].is_active = 1 }
        ordered == SortBy(rows, [ r \in rows |-> pm[r.pinnacle_id].start_time ])
    IN  [ i \in DOMAIN ordered |-> MatchedRow(ordered[i]) ]

\* (1 / fair_odds * retail_odds - 1) * 100, the unrounded EV percentage of a
\* side, as an exact fraction num / den of one percent (den > 0).
EvPct(fair_odds, retail_odds) == [num |-> 100 * (retail_odds - fair_odds), den |-> fair_odds]

RatPositive(r) == r.num > 0
RatGreater(a, b) == a.num * b.den > b.num * a.den

\* round(ev, 4) in units of 1e-4, which is also round(ev * 100, 2) in
\* hundredths of a percent.
EvRounded(fair_odds, retail_odds) == RoundHalfEven(10000 * (retail_odds - fair_odds), fair_odds)

\* best_bet is None.
NoBet == "none"

\* Variant: a side with EV exactly 0 counts as a bet.
BestBet_NonNegative(home_ev_pct, away_ev_pct) ==
    IF home_ev_pct.num >= 0 \/ away_ev_pct.num >= 0
    THEN (IF RatGreater(home_ev_pct, away_ev_pct)
          THEN [best_bet |-> "home", best_ev_pct |-> home_ev_pct]
          ELSE [best_bet |-> "away", best_ev_pct |-> away_ev_pct])
    ELSE [best_bet |-> NoBet,
          best_ev_pct |-> IF RatGreater(away_ev_pct, home_ev_pct) THEN away_ev_pct ELSE home_ev_pct]

\* The best-bet decision of get_matched_markets on the unrounded power EVs.
BestBet(home_ev_pct, away_ev_pct) ==
    IF RatPositive(home_ev_pct) \/ RatPositive(away_ev_pct)
    THEN (IF RatGreater(home_ev_pct, away_ev_pct)
          THEN [best_bet |-> "home", best_ev_pct |-> home_ev_pct]
          ELSE [best_bet |-> "away", best_ev_pct |-> away_ev_pct])
    ELSE [best_bet |-> NoBet,
          best_ev_pct |-> IF RatGreater(away_ev_pct, home_ev_pct) THEN away_ev_pct ELSE home_ev_pct]

\* Variant: the away EV is computed against the retail home odds.
EvColumns_CrossSide(home_fair, away_fair, home_mult, away_mult, cs500_home_odds, cs500_away_odds) ==
    LET has_mult == Truthy(home_mult) /\ Truthy(away_mult)
        best == BestBet(EvPct(home_fair, cs500_home_odds), EvPct(away_fair, cs500_home_odds))
    IN  [home_ev |-> EvRounded(home_fair, cs500_home_odds),
         away_ev |-> EvRounded(away_fair, cs500_home_odds),
         home_ev_pct |-> EvRounded(home_fair, cs500_home_odds),
         away_ev_pct |-> EvRounded(away_fair, cs500_home_odds),
         home_mult_ev |-> EvRounded(IF has_mult THEN home_mult ELSE home_fair, cs500_home_odds),
         away_mult_ev |-> EvRounded(IF has_mult THEN away_mult ELSE away_fair, cs500_home_odds),
         home_mult_ev_pct |-> EvRounded(IF has_mult THEN home_mult ELSE home_fair, cs500_home_odds),
         away_mult_ev_pct |-> EvRounded(IF has_mult THEN away_mult ELSE away_fair, cs500_home_odds),
         best_bet |-> best.best_bet, best_ev_pct |-> best.best_ev_pct]

\* The EV columns get_matched_markets adds to a row: power-method EVs, the
\* proportional ones (the power values when a proportional price is
\* missing), and the best bet.
EvColumns(home_fair, away_fair, home_mult, away_mult, cs500_home_odds, cs500_away_odds) ==
    LET has_mult == Truthy(home_mult) /\ Truthy(away_mult)
        best == BestBet(EvPct(home_fair, cs500_home_odds), EvPct(away_fair, cs500_away_odds))
    IN  [home_ev |-> EvRounded(home_fair, cs500_home_odds),
         away_ev |-> EvRounded(away_fair, cs500_away_odds),
         home_ev_pct |-> EvRounded(home_fair, cs500_home_odds),
         away_ev_pct |-> EvRounded(away_fair, cs500_away_odds),
         home_mult_ev |-> EvRounded(IF has_mult THEN home_mult ELSE home_fair, cs500_home_odds),
         away_mult_ev |-> EvRounded(IF has_mult THEN away_mult ELSE away_fair, cs500_away_odds),
         home_mult_ev_pct |-> EvRounded(IF has_mult THEN home_mult ELSE home_fair, cs500_home_odds),
         away_mult_ev_pct |-> EvRounded(IF has_mult THEN away_mult ELSE away_fair, cs500_away_odds),
         best_bet |-> best.best_bet, best_ev_pct |-> best.best_ev_pct]

\* The EV columns of a row of get_matched_markets.
matched_market_ev(pm, cm, row) ==
    EvColumns(pm[row.pinnacle_id].home_fair_odds, pm[row.pinnacle_id].away_fair_odds,
              pm[row.pinnacle_id].home_mult_odds, pm[row.pinnacle_id].away_mult_odds,
              cm[row.cs500_id].home_odds, cm[row.cs500_id].away_odds)

\* Variant: a market counts as unmatched when none of its mapping rows
\* leads to an active market of the other book.
get_unmatched_markets_NoLiveMapping(pm, cm, mm) ==
    [pinnacle |-> SortBy({ id \in DOMAIN pm : pm[id].is_active = 1
                              /\ ~\E r \in MappingJoin(pm, cm, mm) :
                                    r.pinnacle_id = id /\ cm[r.cs500_match_id].is_active = 1 },
                         StartKey(pm)),
     cs500 |-> SortBy({ id \in DOMAIN cm : cm[id].is_active = 1
                           /\ ~\E r \in MappingJoin(pm, cm, mm) :
                                 r.cs500_match_id = id /\ pm[r.pinnacle_id].is_active = 1 },
                      StartKey(cm))]

\* get_unmatched_markets: the active markets of each book with no mapping
\* row, ORDER BY start_time.
get_unmatched_markets(pm, cm, mm) ==
    [pinnacle |-> SortBy({ id \in DOMAIN pm : pm[id].is_active = 1
                              /\ id \notin { r.pinnacle_id : r \in mm } }, StartKey(pm)),
     cs500 |-> SortBy({ id \in DOMAIN cm : cm[id].is_active = 1
                           /\ id \notin { r.cs500_match_id : r \in mm } }, StartKey(cm))]

(***************************************************************************)
(* Matching passes (src/api.py).                                           *)
(***************************************************************************)
p_game(pm, id) ==
    [home_team |-> pm[id].home_team, away_team |-> pm[id].away_team,
     event |-> pm[id].event, start_time |-> pm[id].start_time]

cs500_games(cm) ==
    LET ids == get_active_cs500_markets(cm)
    IN  [ i \in DOMAIN ids |->
            [home_team |-> cm[ids[i]].home_team, away_team |-> cm[ids[i]].away_team,
             event_name |-> cm[ids[i]].event_name, start_time |-> cm[ids[i]].start_time,
             match_id |-> ids[i]] ]

\* Variant: a matching pass considers every active reference market.
unmapped_markets_All(pm, mm) == get_active_pinnacle_markets(pm)

\* The reference markets a matching pass considers: the active ones with
\* no mapping row.
unmapped_markets(pm, mm) ==
    SelectSeq(get_active_pinnacle_markets(pm),
              LAMBDA id : id \notin get_mapped_pinnacle_ids(mm))

RECURSIVE MatchLoop(_, _, _, _, _, _)
\* The loop over the markets to match, from position i on; matched_count
\* is carried along.
MatchLoop(be, pm, cm, todo, i, acc) ==
    IF i > Len(todo) THEN acc
    ELSE LET found == find_best_match(be, p_game(pm, todo[i]), cs500_games(cm))
         IN  IF found.game # NoMatch /\ found.score > ApiThreshold
             THEN MatchLoop(be, pm, cm, todo, i + 1,
                            [mappings |-> store_match_mapping(acc.mappings, todo[i],
                                                              found.game.match_id, found.score),
                             matched_count |-> acc.matched_count + 1])
             ELSE MatchLoop(be, pm, cm, todo, i + 1, acc)

\* match_markets and scheduled_match_markets.
match_markets(be, pm, cm, mm) ==
    MatchLoop(be, pm, cm, unmapped_markets(pm, mm), 1,
              [mappings |-> mm, matched_count |-> 0])

\* rematch_markets: the mapping table is cleared, then every active
\* reference market is matched.
rematch_markets(be, pm, cm, mm) ==
    MatchLoop(be, pm, cm, get_active_pinnacle_markets(pm), 1,
              [mappings |-> clear_match_mappings(mm), matched_count |-> 0])

(***************************************************************************)
(* Closing lines, CLV and purges (src/database.py).                        *)
(***************************************************************************)
\* Variant: the WHERE clause without its time window.
ClosingDue_NoWindow(row, t) ==
    /\ row.is_active = 1
    /\ row.start_time # NULL
    /\ row.home_closing_odds = NULL
    /\ row.away_closing_odds = NULL

\* Variant: the WHERE clause without its test for closing odds.
ClosingDue_IgnoresCaptured(row, t) ==
    /\ row.is_active = 1
    /\ row.start_time # NULL
    /\ row.start_time <= t + CaptureWindow

\* The WHERE clause of capture_closing_lines at time t.
ClosingDue(row, t) ==
    /\ row.is_active = 1
    /\ row.start_time # NULL
    /\ row.home_closing_odds = NULL
    /\ row.away_closing_odds = NULL
    /\ row.start_time <= t + CaptureWindow

\* Variant: the capture does not stamp its time.
CapturedRow_NoStamp(row, t) ==
    [row EXCEPT !.home_closing_odds =
                    IF Truthy(row.home_mult_odds) THEN row.home_mult_odds ELSE row.home_fair_odds,
                !.away_closing_odds =
                    IF Truthy(row.away_mult_odds) THEN row.away_mult_odds ELSE row.away_fair_odds]

\* Variant: the power-method odds are preferred.
CapturedRow_PreferPower(row, t) ==
    [row EXCEPT !.home_closing_odds =
                    IF Truthy(row.home_fair_odds) THEN row.home_fair_odds ELSE row.home_mult_odds,
                !.away_closing_odds =
                    IF Truthy(row.away_fair_odds) THEN row.away_fair_odds ELSE row.away_mult_odds,
                !.closing_captured_at = t]

\* The UPDATE of capture_closing_lines for one selected row at time t.
CapturedRow(row, t) ==
    [row EXCEPT !.home_closing_odds =
                    IF Truthy(row.home_mult_odds) THEN row.home_mult_odds ELSE row.home_fair_odds,
                !.away_closing_odds =
                    IF Truthy(row.away_mult_odds) THEN row.away_mult_odds ELSE row.away_fair_odds,
                !.closing_captured_at = t]

capture_closing_lines(pm, t) ==
    LET markets_to_update == { id \in DOMAIN pm : ClosingDue(pm[id], t) }
    IN  [markets |-> [ id \in DOMAIN pm |->
                         IF id \in markets_to_update THEN CapturedRow(pm[id], t) ELSE pm[id] ],
         count |-> Cardinality(markets_to_update)]

\* Variant: the closing odds of the other side.
SideClosing_Swapped(row, bet_side) ==
    IF bet_side = "home" THEN row.away_closing_odds ELSE row.home_closing_odds

\* The closing odds of the bet's side on its market.
SideClosing(row, bet_side) ==
    IF bet_side = "home" THEN row.home_closing_odds ELSE row.away_closing_odds

\* clv_percentage = (bet_odds - closing_odds) / closing_odds * 100 and
\* clv = (1/closing_odds - 1/bet_odds) * 100, both kept to 1e-4.
ClvPercentage(bet_odds, closing_odds) == Quot((bet_odds - closing_odds) * 1000000, closing_odds)
\* Variant: the probability difference taken the other way round.
ClvProbDiff_Reversed(bet_odds, closing_odds) ==
    Quot(100000000, bet_odds) - Quot(100000000, closing_odds)

ClvProbDiff(bet_odds, closing_odds) ==
    Quot(100000000, closing_odds) - Quot(100000000, bet_odds)

\* update_bet_clv: the join finds the bet and its market; no closing odds
\* for the side gives False.
ClvReady(bs, pm, bet_id) ==
    /\ bet_id \in DOMAIN bs
    /\ bs[bet_id].pinnacle_id \in DOMAIN pm
    /\ Truthy(SideClosing(pm[bs[bet_id].pinnacle_id], bs[bet_id].bet_side))

\* bet_prob = 1 / bet_odds raises ZeroDivisionError for a bet placed at
\* odds 0: the connection rolls back and the exception propagates.
update_bet_clv(bs, pm, bet_id) ==
    IF ~ClvReady(bs, pm, bet_id) THEN [bets |-> bs, updated |-> FALSE, raised |-> FALSE]
    ELSE IF bs[bet_id].odds = 0 THEN [bets |-> bs, updated |-> FALSE, raised |-> TRUE]
    ELSE LET closing_odds == SideClosing(pm[bs[bet_id].pinnacle_id], bs[bet_id].bet_side)
         IN  [bets |-> [bs EXCEPT ![bet_id].closing_odds = closing_odds,
                                  ![bet_id].clv = ClvProbDiff(bs[bet_id].odds, closing_odds),
                                  ![bet_id].clv_percentage = ClvPercentage(bs[bet_id].odds, closing_odds)],
              updated |-> TRUE, raised |-> FALSE]

\* The SELECT of update_all_pending_clv.
PendingClv(bs, pm, bet_id) ==
    /\ bs[bet_id].pinnacle_id \in DOMAIN pm
    /\ bs[bet_id].closing_odds = NULL
    /\ \/ bs[bet_id].bet_side = "home" /\ pm[bs[bet_id].pinnacle_id].home_closing_odds # NULL
       \/ bs[bet_id].bet_side = "away" /\ pm[bs[bet_id].pinnacle_id].away_closing_odds # NULL

RECURSIVE ClvLoop(_, _, _, _, _)
\* Each update_bet_clv call commits on its own connection; an exception
\* ends the loop and leaves the earlier updates committed.
ClvLoop(bs, pm, bet_ids, i, count) ==
    IF i > Len(bet_ids) THEN [bets |-> bs, count |-> count, raised |-> FALSE]
    ELSE LET r == update_bet_clv(bs, pm, bet_ids[i])
         IN  IF r.raised THEN [bets |-> bs, count |-> count, raised |-> TRUE]
             ELSE ClvLoop(r.bets, pm, bet_ids, i + 1, IF r.updated THEN count + 1 ELSE count)

update_all_pending_clv(bs, pm) ==
    ClvLoop(bs, pm, SelectSeq([ i \in DOMAIN bs |-> i ], LAMBDA i : PendingClv(bs, pm, i)), 1, 0)

\* Variant: the purge does not look at the mapping rows.
StartedWithoutMapping_IgnoresMapping(pm, mm, t, id) ==
    /\ pm[id].start_time # NULL
    /\ pm[id].start_time <= t

\* delete_started_matches_without_ev: started reference markets with no
\* mapping row are deleted.
StartedWithoutMapping(pm, mm, t, id) ==
    /\ pm[id].start_time # NULL
    /\ pm[id].start_time <= t
    /\ id \notin get_mapped_pinnacle_ids(mm)

delete_started_matches_without_ev(pm, mm, t) ==
    LET gone == { id \in DOMAIN pm : StartedWithoutMapping(pm, mm, t, id) }
    IN  [markets |-> [ id \in (DOMAIN pm) \ gone |-> pm[id] ],
         deleted_count |-> Cardinality(gone)]

\* clear_archived_matches: every started reference market is deleted.
clear_archived_matches(pm, t) ==
    LET gone == { id \in DOMAIN pm : pm[id].start_time # NULL /\ pm[id].start_time <= t }
    IN  [markets |-> [ id \in (DOMAIN pm) \ gone |-> pm[id] ],
         count |-> Cardinality(gone)]

\* place_bet: one INSERT of the request's snapshot (stake and the EV
\* fields in hundredths); closing_odds, clv and clv_percentage start NULL.
BetRow(bet_data) ==
    [pinnacle_id |-> bet_data.pinnacle_id, bet_side |-> bet_data.bet_side,
     odds |-> bet_data.odds, stake |-> bet_data.stake,
     ev_percentage |-> bet_data.ev_percentage, fair_odds |-> bet_data.fair_odds,
     closing_odds |-> NULL, clv |-> NULL, clv_percentage |-> NULL,
     status |-> "pending", result |-> "none", actual_return |-> NULL]

place_bet(bs, bet_data) == Append(bs, BetRow(bet_data))

BetRequests ==
    [pinnacle_id : {"p1"}, bet_side : Sides, odds : BetOdds,
     stake : {1000}, ev_percentage : {526}, fair_odds : {190}]

\* update_bet_result: any result other than win and loss gives status void;
\* an UPDATE for an id with no row changes nothing.
update_bet_result(bs, bet_id, result, actual_return) ==
    IF bet_id \notin DOMAIN bs THEN bs
    ELSE [bs EXCEPT ![bet_id].status = IF result = "win" THEN "won"
                                       ELSE IF result = "loss" THEN "lost" ELSE "void",
                    ![bet_id].result = result,
                    ![bet_id].actual_return = actual_return]

\* Variant: the positive-CLV count has no WHERE clause.
get_bet_stats_CountsAll(bs) ==
    LET total_bets == Len(bs)
        settled_bets == Cardinality({ i \in DOMAIN bs : bs[i].status \in {"won", "lost", "void"} })
        bets_with_clv == Cardinality({ i \in DOMAIN bs : bs[i].clv # NULL })
        positive_clv_count == Len(bs)
    IN  [total_bets |-> total_bets, settled_bets |-> settled_bets,
         pending_bets |-> total_bets - settled_bets,
         bets_with_clv |-> bets_with_clv, positive_clv_count |-> positive_clv_count,
         positive_clv_rate |-> IF bets_with_clv > 0
                               THEN RoundHalfEven(positive_clv_count * 10000, bets_with_clv)
                               ELSE 0]

\* get_bet_stats: the counts and the positive-CLV rate, round(rate, 2) in
\* hundredths of a percent (NULL > 0 is not true in SQL).
get_bet_stats(bs) ==
    LET total_bets == Len(bs)
        settled_bets == Cardinality({ i \in DOMAIN bs : bs[i].status \in {"won", "lost", "void"} })
        bets_with_clv == Cardinality({ i \in DOMAIN bs : bs[i].clv # NULL })
        positive_clv_count == Cardinality({ i \in DOMAIN bs : bs[i].clv # NULL /\ bs[i].clv > 0 })
    IN  [total_bets |-> total_bets, settled_bets |-> settled_bets,
         pending_bets |-> total_bets - settled_bets,
         bets_with_clv |-> bets_with_clv, positive_clv_count |-> positive_clv_count,
         positive_clv_rate |-> IF bets_with_clv > 0
                               THEN RoundHalfEven(positive_clv_count * 10000, bets_with_clv)
                               ELSE 0]

\* PUT /api/bets/{bet_id}: 404 when get_bet_by_id finds no row.
update_bet(bs, bet_id, update) ==
    IF bet_id \notin DOMAIN bs THEN [bets |-> bs, status_code |-> 404]
    ELSE [bets |-> update_bet_result(bs, bet_id, update.result, update.actual_return),
          status_code |-> 200]

\* BetUpdateRequest: result is any string, actual_return any float.
BetUpdateRequests ==
    { [result |-> "win", actual_return |-> 400], [result |-> "loss", actual_return |-> 0],
      [result |-> "void", actual_return |-> 200], [result |-> "draw", actual_return |-> 0] }

(***************************************************************************)
(* The scheduled cycle (src/api.py).  scheduled_scrape_all runs on the     *)
(* event loop; the only point where it yields to other handlers is the     *)
(* await of the retail fetch.                                              *)
(***************************************************************************)
\* A fetch that raised: the step's except clause logs it and stores nothing.
FetchFailed == [ok |-> FALSE]
Fetched(batch) == [ok |-> TRUE, markets |-> batch]
FetchResults(batches) == { Fetched(b) : b \in batches } \cup {FetchFailed}

\* scheduled_scrape_pinnacle.
scheduled_scrape_pinnacle(pm, fetched) ==
    IF ~fetched.ok THEN pm ELSE store_pinnacle_markets(pm, fetched.markets)

\* scheduled_scrape_cs500 after the await.
scheduled_scrape_cs500(cm, fetched) ==
    IF ~fetched.ok THEN cm ELSE store_cs500_markets(cm, fetched.markets)

\* scheduled_capture_closing_lines: capture, the CLV pass when something
\* was captured, then the purge, all inside one try block: an exception
\* of the CLV pass is logged and the purge is not reached.
scheduled_capture_closing_lines(pm, mm, bs, t) ==
    LET captured == capture_closing_lines(pm, t)
        clv == IF captured.count > 0
               THEN update_all_pending_clv(bs, captured.markets)
               ELSE [bets |-> bs, count |-> 0, raised |-> FALSE]
        purged == IF clv.raised
                  THEN [markets |-> captured.markets, deleted_count |-> 0]
                  ELSE delete_started_matches_without_ev(captured.markets, mm, t)
    IN  [markets |-> purged.markets, bets |-> clv.bets,
         count |-> captured.count, deleted |-> purged.deleted_count]

\* The part of scheduled_scrape_all that follows the retail scrape.
CycleTail(be, pm, cm, mm, bs, t) ==
    LET matched == match_markets(be, pm, cm, mm)
        closed == scheduled_capture_closing_lines(pm, matched.mappings, bs, t)
    IN  [markets |-> closed.markets, mappings |-> matched.mappings,
         bets |-> closed.bets, count |-> closed.count]

\* scheduler_config as the module defines it, no job added, and no price
\* pair under conversion.  An interval is mantissa * 10^exp10 minutes.
InitAside ==
    /\ scheduler_config = [enabled |-> FALSE,
                           pinnacle_interval |-> [mantissa |-> 5, exp10 |-> 0],
                           cs500_interval |-> [mantissa |-> 5, exp10 |-> 0]]
    /\ jobs = << >>
    /\ price_pair = << >>
    /\ decimal_pair = << >>

Init ==
    /\ pinnacle_markets = << >>
    /\ cs500_markets = << >>
    /\ match_mappings = {}
    /\ cs500_match_ids = {}
    /\ bets = << >>
    /\ now = 0
    /\ inflight = {}
    /\ backend = "embedding"
    /\ manual_inflight = {}
    /\ InitAside

\* The clock of datetime('now') advances; it is observed once per
\* scheduler interval.
Tick ==
    /\ now < MaxTicks * TickMinutes
    /\ now' = now + TickMinutes
    /\ UNCHANGED << pinnacle_markets, cs500_markets, match_mappings, cs500_match_ids,
                    bets, inflight, backend, manual_inflight, aside >>

\* POST /api/scrape/pinnacle
ScrapePinnacle(batch) ==
    /\ pinnacle_markets' = store_pinnacle_markets(pinnacle_markets, batch)
    /\ UNCHANGED << cs500_markets, match_mappings, cs500_match_ids, bets, now, inflight, backend, manual_inflight, aside >>

\* POST /cs500_matchids
ReceiveMatchIds(ids) ==
    /\ cs500_match_ids' = cs500_match_ids \cup ids
    /\ UNCHANGED << pinnacle_markets, cs500_markets, match_mappings, bets, now, inflight, backend, manual_inflight, aside >>

\* POST /api/scrape/cs500 (with no stored match id it only warns)
ScrapeCs500(batch) ==
    /\ cs500_match_ids # {}
    /\ cs500_markets' = store_cs500_markets(cs500_markets, batch)
    /\ UNCHANGED << pinnacle_markets, match_mappings, cs500_match_ids, bets, now, inflight, backend, manual_inflight, aside >>

\* POST /api/match_markets
MatchMarkets ==
    LET r == match_markets(backend, pinnacle_markets, cs500_markets, match_mappings)
    IN  /\ match_mappings' = r.mappings
        /\ UNCHANGED << pinnacle_markets, cs500_markets, cs500_match_ids, bets, now, inflight, backend, manual_inflight, aside >>

\* POST /api/rematch
Rematch ==
    LET r == rematch_markets(backend, pinnacle_markets, cs500_markets, match_mappings)
    IN  /\ match_mappings' = r.mappings
        /\ UNCHANGED << pinnacle_markets, cs500_markets, cs500_match_ids, bets, now, inflight, backend, manual_inflight, aside >>

\* POST /api/closing_lines/capture
CaptureEndpoint ==
    LET r == capture_closing_lines(pinnacle_markets, now)
    IN  /\ pinnacle_markets' = r.markets
        /\ UNCHANGED << cs500_markets, match_mappings, cs500_match_ids, bets, now, inflight, backend, manual_inflight, aside >>

\* POST /api/clv/update
UpdateClv ==
    LET r == update_all_pending_clv(bets, pinnacle_markets)
    IN  /\ bets' = r.bets
        /\ UNCHANGED << pinnacle_markets, cs500_markets, match_mappings, cs500_match_ids,
                        now, inflight, backend, manual_inflight, aside >>

\* POST /api/clv/update/{bet_id}
UpdateBetClvEndpoint(bet_id) ==
    LET r == update_bet_clv(bets, pinnacle_markets, bet_id)
    IN  /\ bets' = r.bets
        /\ UNCHANGED << pinnacle_markets, cs500_markets, match_mappings, cs500_match_ids,
                        now, inflight, backend, manual_inflight, aside >>

\* POST /api/bets
PlaceBet(bet_data) ==
    /\ Len(bets) < MaxBets
    /\ bets' = place_bet(bets, bet_data)
    /\ UNCHANGED << pinnacle_markets, cs500_markets, match_mappings, cs500_match_ids,
                    now, inflight, backend, manual_inflight, aside >>

\* Variant: clearing the data deletes the bets as well.
ClearData_WithBets ==
    /\ match_mappings' = {}
    /\ pinnacle_markets' = << >>
    /\ cs500_markets' = << >>
    /\ cs500_match_ids' = {}
    /\ bets' = << >>
    /\ UNCHANGED << now, inflight, backend, manual_inflight, aside >>

\* DELETE /api/data (clear_all_data)
ClearData ==
    /\ match_mappings' = {}
    /\ pinnacle_markets' = << >>
    /\ cs500_markets' = << >>
    /\ cs500_match_ids' = {}
    /\ UNCHANGED << bets, now, inflight, backend, manual_inflight, aside >>

\* Variant: clearing the archive also deletes the mapping rows of the
\* deleted markets (what ON DELETE CASCADE would do).
ClearArchive_Cascade ==
    LET r == clear_archived_matches(pinnacle_markets, now)
    IN  /\ pinnacle_markets' = r.markets
        /\ match_mappings' = { m \in match_mappings : m.pinnacle_id \in DOMAIN r.markets }
        /\ UNCHANGED << cs500_markets, cs500_match_ids, bets, now, inflight, backend, manual_inflight, aside >>

\* DELETE /api/archive/clear
ClearArchive ==
    LET r == clear_archived_matches(pinnacle_markets, now)
    IN  /\ pinnacle_markets' = r.markets
        /\ UNCHANGED << cs500_markets, match_mappings, cs500_match_ids, bets, now, inflight, backend, manual_inflight, aside >>

\* POST /api/archive/cleanup
Cleanup ==
    LET r == delete_started_matches_without_ev(pinnacle_markets, match_mappings, now)
    IN  /\ pinnacle_markets' = r.markets
        /\ UNCHANGED << cs500_markets, match_mappings, cs500_match_ids, bets, now, inflight, backend, manual_inflight, aside >>

\* scheduled_scrape_all with no stored retail match id: scheduled_scrape_cs500
\* returns before its await and the cycle runs to its end in one piece.
CycleWithoutRetail(fetched) ==
    /\ inflight = {}
    /\ cs500_match_ids = {}
    /\ LET pm == scheduled_scrape_pinnacle(pinnacle_markets, fetched)
           r == CycleTail(backend, pm, cs500_markets, match_mappings, bets, now)
       IN  /\ pinnacle_markets' = r.markets
           /\ match_mappings' = r.mappings
           /\ bets' = r.bets
    /\ UNCHANGED << cs500_markets, cs500_match_ids, now, inflight, backend, manual_inflight, aside >>

\* scheduled_scrape_all up to the await of the retail fetch.
CycleStart(fetched) ==
    /\ inflight = {}
    /\ cs500_match_ids # {}
    /\ pinnacle_markets' = scheduled_scrape_pinnacle(pinnacle_markets, fetched)
    /\ inflight' = cs500_match_ids
    /\ UNCHANGED << cs500_markets, match_mappings, cs500_match_ids, bets, now, backend, manual_inflight, aside >>

\* scheduled_scrape_all from the return of the retail fetch to its end.
CycleResume(fetched) ==
    /\ inflight # {}
    /\ LET cm == scheduled_scrape_cs500(cs500_markets, fetched)
           r == CycleTail(backend, pinnacle_markets, cm, match_mappings, bets, now)
       IN  /\ pinnacle_markets' = r.markets
           /\ cs500_markets' = cm
           /\ match_mappings' = r.mappings
           /\ bets' = r.bets
    /\ inflight' = {}
    /\ UNCHANGED << cs500_match_ids, now, backend, manual_inflight, aside >>

Next ==
    \/ Tick
    \/ \E batch \in PinnacleBatches(now) : ScrapePinnacle(batch)
    \/ \E ids \in {Cs500Ids} : ReceiveMatchIds(ids)
    \/ \E batch \in Cs500Batches(cs500_match_ids) : ScrapeCs500(batch)
    \/ MatchMarkets
    \/ Rematch
    \/ CaptureEndpoint
    \/ UpdateClv
    \/ \E bet_id \in 1..MaxBets : UpdateBetClvEndpoint(bet_id)
    \/ \E bet_data \in BetRequests : PlaceBet(bet_data)
    \/ ClearData
    \/ ClearArchive
    \/ Cleanup
    \/ \E fetched \in FetchResults(PinnacleBatches(now)) : CycleWithoutRetail(fetched)
    \/ \E fetched \in FetchResults(PinnacleBatches(now)) : CycleStart(fetched)
    \/ \E fetched \in FetchResults(Cs500Batches(inflight)) : CycleResume(fetched)

Spec == Init /\ [][Next]_vars

(***************************************************************************)
(* The store under requests that make an operation raise.  BetRequest      *)
(* (src/api.py) validates odds as a float only, so a bet at odds 0 is      *)
(* accepted; update_bet_clv divides by the bet odds.                       *)
(***************************************************************************)
MaxFaultBets == 2

AnyOddsRequests ==
    [pinnacle_id : {"p1"}, bet_side : {"home"}, odds : {0} \cup BetOdds,
     stake : {1000}, ev_percentage : {526}, fair_odds : {190}]

\* POST /api/bets with unvalidated odds
PlaceBetAnyOdds(bet_data) ==
    /\ Len(bets) < MaxFaultBets
    /\ bets' = place_bet(bets, bet_data)
    /\ UNCHANGED << pinnacle_markets, cs500_markets, match_mappings, cs500_match_ids,
                    now, inflight, backend, manual_inflight, aside >>

\* PUT /api/bets/{bet_id}
UpdateBet(bet_id, update) ==
    /\ bets' = update_bet(bets, bet_id, update).bets
    /\ UNCHANGED << pinnacle_markets, cs500_markets, match_mappings, cs500_match_ids,
                    now, inflight, backend, manual_inflight, aside >>

NextFaults ==
    \/ Tick
    \/ \E bet_id \in 1..(MaxFaultBets + 1), update \in BetUpdateRequests : UpdateBet(bet_id, update)
    \/ \E batch \in PinnacleBatches(now) : ScrapePinnacle(batch)
    \/ \E bet_data \in AnyOddsRequests : PlaceBetAnyOdds(bet_data)
    \/ CaptureEndpoint
    \/ UpdateClv
    \/ \E fetched \in FetchResults(PinnacleBatches(now)) : CycleWithoutRetail(fetched)

SpecFaults == Init /\ [][NextFaults]_vars

(***************************************************************************)
(* Bets at odds on either side of the closing odds, and at a negative      *)
(* value BetRequest accepts as well, with the capture and the CLV pass.    *)
(***************************************************************************)
SignedOddsRequests ==
    [pinnacle_id : {"p1"}, bet_side : Sides, odds : {0 - 200, 150, 200},
     stake : {1000}, ev_percentage : {526}, fair_odds : {190}]

NextClv ==
    \/ Tick
    \/ \E batch \in PinnacleBatches(now) : ScrapePinnacle(batch)
    \/ \E bet_data \in SignedOddsRequests : PlaceBetAnyOdds(bet_data)
    \/ CaptureEndpoint
    \/ UpdateClv
    \/ \E bet_id \in 1..MaxFaultBets : UpdateBet(bet_id, [result |-> "loss", actual_return |-> 0])

SpecClv == Init /\ [][NextClv]_vars

(***************************************************************************)
(* The scheduled job next to the manual POST /api/scrape/all.  scrape_all  *)
(* calls the scrape_pinnacle, scrape_cs500 and match_markets endpoints in  *)
(* turn, each in its own try block, and awaits the retail fetch inside     *)
(* scrape_cs500; nothing in it looks at whether the scheduled job is       *)
(* running, and the scheduled job does not look at it either.              *)
(***************************************************************************)

\* scrape_all with no stored retail match id: scrape_cs500 only warns.
ScrapeAllWithoutRetail(fetched) ==
    /\ manual_inflight = {}
    /\ cs500_match_ids = {}
    /\ LET pm == scheduled_scrape_pinnacle(pinnacle_markets, fetched)
           r == match_markets(backend, pm, cs500_markets, match_mappings)
       IN  /\ pinnacle_markets' = pm
           /\ match_mappings' = r.mappings
    /\ UNCHANGED << cs500_markets, cs500_match_ids, bets, now, inflight, backend, manual_inflight, aside >>

\* scrape_all up to the await of the retail fetch.
ScrapeAllStart(fetched) ==
    /\ manual_inflight = {}
    /\ cs500_match_ids # {}
    /\ pinnacle_markets' = scheduled_scrape_pinnacle(pinnacle_markets, fetched)
    /\ manual_inflight' = cs500_match_ids
    /\ UNCHANGED << cs500_markets, match_mappings, cs500_match_ids, bets, now, inflight, backend, aside >>

\* scrape_all from the return of the retail fetch to its end.
ScrapeAllResume(fetched) ==
    /\ manual_inflight # {}
    /\ LET cm == scheduled_scrape_cs500(cs500_markets, fetched)
           r == match_markets(backend, pinnacle_markets, cm, match_mappings)
       IN  /\ cs500_markets' = cm
           /\ match_mappings' = r.mappings
    /\ manual_inflight' = {}
    /\ UNCHANGED << pinnacle_markets, cs500_match_ids, bets, now, inflight, backend, aside >>

NextManual ==
    \/ Tick
    \/ \E ids \in {Cs500Ids} : ReceiveMatchIds(ids)
    \/ \E fetched \in FetchResults(PinnacleBatches(now)) : CycleWithoutRetail(fetched)
    \/ \E fetched \in FetchResults(PinnacleBatches(now)) : CycleStart(fetched)
    \/ \E fetched \in FetchResults(Cs500Batches(inflight)) : CycleResume(fetched)
    \/ \E fetched \in FetchResults(PinnacleBatches(now)) : ScrapeAllWithoutRetail(fetched)
    \/ \E fetched \in FetchResults(PinnacleBatches(now)) : ScrapeAllStart(fetched)
    \/ \E fetched \in FetchResults(Cs500Batches(manual_inflight)) : ScrapeAllResume(fetched)

SpecManual == Init /\ [][NextManual]_vars

(***************************************************************************)
(* A store that was created before the proportional odds were added:      *)
(* init_database adds the columns home_mult_odds and away_mult_odds (and   *)
(* the probability columns) to the existing table, so the rows stored      *)
(* before it have NULL in them until the next scrape replaces the row.     *)
(***************************************************************************)
LegacyRow(id) ==
    [PinnacleRow(PinnacleMarket(id, FirstQuote, 10))
        EXCEPT !.home_mult_odds = NULL, !.away_mult_odds = NULL,
               !.home_fair_prob = NULL, !.away_fair_prob = NULL,
               !.home_mult_prob = NULL, !.away_mult_prob = NULL]

InitLegacy ==
    /\ pinnacle_markets = [ id \in {"p1"} |-> LegacyRow(id) ]
    /\ cs500_markets = << >>
    /\ match_mappings = {}
    /\ cs500_match_ids = {}
    /\ bets = << >>
    /\ now = 0
    /\ inflight = {}
    /\ backend = "embedding"
    /\ manual_inflight = {}
    /\ InitAside

NextLegacy ==
    \/ Tick
    \/ \E batch \in PinnacleBatches(now) : ScrapePinnacle(batch)
    \/ CaptureEndpoint
    \/ \E bet_data \in BetRequests : PlaceBet(bet_data)
    \/ UpdateClv

SpecLegacy == InitLegacy /\ [][NextLegacy]_vars

(***************************************************************************)
(* The scheduler control endpoints (src/api.py).  interval_minutes is an   *)
(* unvalidated int; it is written mantissa * 10^exp10.  IntervalTrigger    *)
(* builds timedelta(minutes = interval_minutes), which raises              *)
(* OverflowError beyond 999999999 days (about 1.44 * 10^12 minutes).       *)
(***************************************************************************)
MaxInterval == 30

IntervalRequests == [mantissa : 1..MaxInterval, exp10 : {0, 16}]

TimedeltaOverflows(interval_minutes) ==
    interval_minutes.exp10 >= 13 /\ interval_minutes.mantissa >= 1

\* scheduler.add_job(..., id = job_id, replace_existing = True)
add_job(js, job_id, interval_minutes) ==
    LET job == [id |-> job_id, minutes |-> interval_minutes]
    IN  IF \E i \in DOMAIN js : js[i].id = job_id
        THEN [ i \in DOMAIN js |-> IF js[i].id = job_id THEN job ELSE js[i] ]
        ELSE Append(js, job)

\* start_scheduler: every job is removed, then the trigger is built and the
\* job added; an exception leaves the jobs removed and the configuration
\* as it was, and the request is answered with status 500.
start_scheduler(config, js, interval_minutes) ==
    IF TimedeltaOverflows(interval_minutes)
    THEN [config |-> config, jobs |-> << >>, status |-> 500]
    ELSE [config |-> [config EXCEPT !.enabled = TRUE,
                                    !.pinnacle_interval = interval_minutes,
                                    !.cs500_interval = interval_minutes],
          jobs |-> add_job(<< >>, "auto_scrape", interval_minutes),
          status |-> 200]

stop_scheduler(config, js) ==
    [config |-> [config EXCEPT !.enabled = FALSE], jobs |-> << >>, status |-> 200]

\* update_scheduler_interval: stop and start again if enabled, otherwise
\* only the configured interval changes.
update_scheduler_interval(config, js, interval_minutes) ==
    IF config.enabled
    THEN LET stopped == stop_scheduler(config, js)
         IN  start_scheduler(stopped.config, stopped.jobs, interval_minutes)
    ELSE [config |-> [config EXCEPT !.pinnacle_interval = interval_minutes,
                                    !.cs500_interval = interval_minutes],
          jobs |-> js, status |-> 200]

\* POST /api/scheduler/start
StartScheduler(interval_minutes) ==
    LET r == start_scheduler(scheduler_config, jobs, interval_minutes)
    IN  /\ scheduler_config' = r.config
        /\ jobs' = r.jobs
        /\ UNCHANGED << pinnacle_markets, cs500_markets, match_mappings, cs500_match_ids,
                        bets, now, inflight, backend, manual_inflight, price_pair, decimal_pair >>

\* POST /api/scheduler/stop
StopScheduler ==
    LET r == stop_scheduler(scheduler_config, jobs)
    IN  /\ scheduler_config' = r.config
        /\ jobs' = r.jobs
        /\ UNCHANGED << pinnacle_markets, cs500_markets, match_mappings, cs500_match_ids,
                        bets, now, inflight, backend, manual_inflight, price_pair, decimal_pair >>

\* POST /api/scheduler/update
UpdateSchedulerInterval(interval_minutes) ==
    LET r == update_scheduler_interval(scheduler_config, jobs, interval_minutes)
    IN  /\ scheduler_config' = r.config
        /\ jobs' = r.jobs
        /\ UNCHANGED << pinnacle_markets, cs500_markets, match_mappings, cs500_match_ids,
                        bets, now, inflight, backend, manual_inflight, price_pair, decimal_pair >>

NextScheduler ==
    \/ \E interval_minutes \in IntervalRequests : StartScheduler(interval_minutes)
    \/ StopScheduler
    \/ \E interval_minutes \in IntervalRequests : UpdateSchedulerInterval(interval_minutes)

SpecScheduler == Init /\ [][NextScheduler]_vars

(***************************************************************************)
(* The price conversion on its own.  get_markets calls american_to_decimal *)
(* on the home and the away price of a moneyline; the prices are signed    *)
(* integers, and a price of 0 makes the division raise ZeroDivisionError.  *)
(***************************************************************************)
MaxAmerican == 110

AmericanPrices == (0 - MaxAmerican)..MaxAmerican

\* A call of american_to_decimal: its value, or the exception it raises.
american_to_decimal_call(american_odds) ==
    IF american_odds = 0
    THEN [raised |-> TRUE, value |-> NULL]
    ELSE [raised |-> FALSE, value |-> american_to_decimal(american_odds)]

InitOdds ==
    /\ pinnacle_markets = << >>
    /\ cs500_markets = << >>
    /\ match_mappings = {}
    /\ cs500_match_ids = {}
    /\ bets = << >>
    /\ now = 0
    /\ inflight = {}
    /\ backend = "embedding"
    /\ manual_inflight = {}
    /\ scheduler_config = [enabled |-> FALSE,
                           pinnacle_interval |-> [mantissa |-> 5, exp10 |-> 0],
                           cs500_interval |-> [mantissa |-> 5, exp10 |-> 0]]
    /\ jobs = << >>
    /\ price_pair \in AmericanPrices \X AmericanPrices
    /\ decimal_pair = << >>

\* The two conversions of get_markets for one moneyline.
ConvertPrices ==
    /\ decimal_pair = << >>
    /\ decimal_pair' = << american_to_decimal_call(price_pair[1]),
                          american_to_decimal_call(price_pair[2]) >>
    /\ UNCHANGED << pinnacle_markets, cs500_markets, match_mappings, cs500_match_ids,
                    bets, now, inflight, backend, manual_inflight,
                    scheduler_config, jobs, price_pair >>

NextOdds == ConvertPrices

SpecOdds == InitOdds /\ [][NextOdds]_vars

(***************************************************************************)
(* The matcher on its own: both stores hold the result of one scrape, the  *)
(* similarity backend is the one the import at start-up selected, and the  *)
(* retail scrape and the matching passes run.                              *)
(***************************************************************************)
InitMatcher ==
    /\ pinnacle_markets \in { store_pinnacle_markets(<< >>, batch) : batch \in PinnacleBatches(0) }
    /\ cs500_markets \in { store_cs500_markets(<< >>, batch) : batch \in Cs500Batches(MatcherCs500Ids) }
    /\ match_mappings = {}
    /\ cs500_match_ids = MatcherCs500Ids
    /\ bets = << >>
    /\ now = 0
    /\ inflight = {}
    /\ backend \in Backends
    /\ manual_inflight = {}
    /\ InitAside

NextMatcher ==
    \/ \E batch \in Cs500Batches(cs500_match_ids) : ScrapeCs500(batch)
    \/ MatchMarkets
    \/ Rematch

SpecMatcher == InitMatcher /\ [][NextMatcher]_vars

(***************************************************************************)
(* Vocabulary of the properties.                                           *)
(***************************************************************************)
\* This step wrote the closing columns of market id.
Captures(id) ==
    /\ id \in DOMAIN pinnacle_markets'
    /\ pinnacle_markets'[id].closing_captured_at # NULL
    /\ \/ id \notin DOMAIN pinnacle_markets
       \/ pinnacle_markets[id].home_closing_odds # pinnacle_markets'[id].home_closing_odds
       \/ pinnacle_markets[id].away_closing_odds # pinnacle_markets'[id].away_closing_odds
       \/ pinnacle_markets[id].closing_captured_at # pinnacle_markets'[id].closing_captured_at

HasClosing(row) == row.home_closing_odds # NULL \/ row.away_closing_odds # NULL

\* A scheduled cycle ends with this step.
CycleEnds ==
    \/ \E fetched \in FetchResults(PinnacleBatches(now)) : CycleWithoutRetail(fetched)
    \/ \E fetched \in FetchResults(Cs500Batches(inflight)) : CycleResume(fetched)

\* A matching pass runs in this step.
MatcherStep == MatchMarkets \/ Rematch \/ CycleEnds

\* Bet i waits for a CLV although its market has closing odds for its side.
ClvOutstanding(bs, pm, i) ==
    /\ bs[i].clv = NULL
    /\ bs[i].pinnacle_id \in DOMAIN pm
    /\ SideClosing(pm[bs[i].pinnacle_id], bs[i].bet_side) # NULL

(***************************************************************************)
(* C1.  Closing odds are terminal: once a reference market has closing     *)
(* odds, they never change and never return to NULL while the row exists.  *)
(* Refuted: re-scraping a captured market replaces its row.                *)
(***************************************************************************)
C1_ClosingOddsTerminal ==
    [][\A id \in (DOMAIN pinnacle_markets) \cap (DOMAIN pinnacle_markets') :
          HasClosing(pinnacle_markets[id]) =>
             /\ pinnacle_markets'[id].home_closing_odds = pinnacle_markets[id].home_closing_odds
             /\ pinnacle_markets'[id].away_closing_odds = pinnacle_markets[id].away_closing_odds]_vars

C3_CaptureIdempotent ==
    LET first == capture_closing_lines(pinnacle_markets, now)
        second == capture_closing_lines(first.markets, now)
    IN  second.count = 0 /\ second.markets = first.markets

\* A capture has just run and the captured market is still active and in
\* its window: only the closing-odds guard keeps it from a second capture.
C3_Witness ==
    \E id \in DOMAIN pinnacle_markets :
        /\ pinnacle_markets[id].closing_captured_at = now
        /\ pinnacle_markets[id].is_active = 1
        /\ pinnacle_markets[id].start_time <= now + CaptureWindow

(***************************************************************************)
(* C4.  A bet's CLV, once set, is never changed by a later operation.      *)
(* Refuted: update_bet_clv has no skip and recomputes from the market's    *)
(* current closing odds.                                                   *)
(***************************************************************************)
C4_ClvSetOnce ==
    [][\A i \in DOMAIN bets :
          bets[i].closing_odds # NULL =>
             /\ i \in DOMAIN bets'
             /\ bets'[i].closing_odds = bets[i].closing_odds
             /\ bets'[i].clv = bets[i].clv
             /\ bets'[i].clv_percentage = bets[i].clv_percentage]_vars

(***************************************************************************)
(* C5.  After any capture that captures a market, scheduled or manual,     *)
(* every bet on a newly captured market whose side has closing odds has    *)
(* its CLV set.  Refuted by the manual capture endpoint.                   *)
(***************************************************************************)
C5_CaptureTriggersClv ==
    [][\A i \in DOMAIN bets' :
          ( /\ Captures(bets'[i].pinnacle_id)
            /\ SideClosing(pinnacle_markets'[bets'[i].pinnacle_id], bets'[i].bet_side) # NULL )
          => bets'[i].clv # NULL]_vars

(***************************************************************************)
(* C6.  At the end of every completed cycle no bet is left without CLV     *)
(* while its market exists and has closing odds for the bet's side.        *)
(* Refuted: the cycle runs the CLV pass only when it captured a market.    *)
(***************************************************************************)
C6_CycleLeavesNoClvOutstanding ==
    [][CycleEnds => \A i \in DOMAIN bets' : ~ClvOutstanding(bets', pinnacle_markets', i)]_vars

(***************************************************************************)
(* C7.  No reference market id appears in more than one mapping row.       *)
(***************************************************************************)
C7_OneMappingPerReference ==
    \A r1 \in match_mappings : \A r2 \in match_mappings :
        r1.pinnacle_id = r2.pinnacle_id => r1 = r2

\* A mapped, active reference market whose retail market is no longer
\* active while another retail market is: a pass that reconsidered it
\* would map it a second time.
C7_Witness ==
    \E r \in match_mappings :
        /\ r.pinnacle_id \in DOMAIN pinnacle_markets
        /\ pinnacle_markets[r.pinnacle_id].is_active = 1
        /\ r.cs500_match_id \in DOMAIN cs500_markets
        /\ cs500_markets[r.cs500_match_id].is_active = 0
        /\ \E c \in DOMAIN cs500_markets :
              /\ cs500_markets[c].is_active = 1
              /\ find_best_match(backend, p_game(pinnacle_markets, r.pinnacle_id),
                                 cs500_games(cs500_markets)).game # NoMatch

(***************************************************************************)
(* C8.  Matcher idempotence: a matching pass run again right after a       *)
(* matching pass stores no new mapping and changes no mapping.             *)
(***************************************************************************)
C8_MatcherIdempotent ==
    LET first == match_markets(backend, pinnacle_markets, cs500_markets, match_mappings)
        second == match_markets(backend, pinnacle_markets, cs500_markets, first.mappings)
    IN  second.matched_count = 0 /\ second.mappings = first.mappings

\* A pass has mapped a market and the pair is still active on both sides.
C8_Witness ==
    \E r \in match_mappings :
        /\ r.pinnacle_id \in DOMAIN pinnacle_markets
        /\ pinnacle_markets[r.pinnacle_id].is_active = 1
        /\ r.cs500_match_id \in DOMAIN cs500_markets
        /\ cs500_markets[r.cs500_match_id].is_active = 1

(***************************************************************************)
(* C9 as stated.  Mapping rows are added only by a matching pass and       *)
(* removed only by the rematch reset; every other operation leaves the     *)
(* mapping table unchanged.                                                *)
(***************************************************************************)
C9_MappingsOnlyMatcherAndRematch ==
    [][/\ (match_mappings' \ match_mappings # {}) => MatcherStep
       /\ (match_mappings \ match_mappings' # {}) => Rematch]_vars

(***************************************************************************)
(* C9 as amended.  Mapping rows are added only by a matching pass and      *)
(* removed only by the rematch reset or by clear_all_data; every other     *)
(* operation leaves the mapping table unchanged.                           *)
(***************************************************************************)
C9_MappingsOnlyMatcherRematchAndClear ==
    [][/\ (match_mappings' \ match_mappings # {}) => MatcherStep
       /\ (match_mappings \ match_mappings' # {}) => (Rematch \/ ClearData)]_vars

\* A mapping row that outlived the deletion of its reference market: the
\* archive clearing acted on a mapped market and left the row alone.
C9_Witness ==
    \E r \in match_mappings : r.pinnacle_id \notin DOMAIN pinnacle_markets

(***************************************************************************)
(* C10.  After store_pinnacle_markets(L) the active reference markets are  *)
(* exactly the ids of L, and every other stored market is still present,   *)
(* unchanged but for being inactive; so for an empty L all are inactive.   *)
(***************************************************************************)
C10_WholesaleReplace ==
    \A batch \in PinnacleBatches(now) :
        LET after == store_pinnacle_markets(pinnacle_markets, batch)
        IN  /\ { id \in DOMAIN after : after[id].is_active = 1 } = DOMAIN batch
            /\ \A id \in (DOMAIN pinnacle_markets) \ (DOMAIN batch) :
                  /\ id \in DOMAIN after
                  /\ after[id] = [pinnacle_markets[id] EXCEPT !.is_active = 0]

\* Every stored reference market is inactive: an empty batch was stored.
C10_Witness ==
    /\ DOMAIN pinnacle_markets # {}
    /\ \A id \in DOMAIN pinnacle_markets : pinnacle_markets[id].is_active = 0

(***************************************************************************)
(* C11.  An inactive market is excluded from matching, from the EV listing *)
(* and from the unmatched listing: every reference market handed to a      *)
(* matching pass, every retail candidate, and every market of a row of     *)
(* get_matched_markets or get_unmatched_markets is active.                 *)
(***************************************************************************)
C11_InactiveExcluded ==
    LET listing == get_unmatched_markets(pinnacle_markets, cs500_markets, match_mappings)
        ev == get_matched_markets(pinnacle_markets, cs500_markets, match_mappings)
    IN  /\ \A id \in Range(unmapped_markets(pinnacle_markets, match_mappings)) :
              pinnacle_markets[id].is_active = 1
        /\ \A id \in Range(get_active_pinnacle_markets(pinnacle_markets)) :
              pinnacle_markets[id].is_active = 1
        /\ \A g \in Range(cs500_games(cs500_markets)) :
              cs500_markets[g.match_id].is_active = 1
        /\ \A row \in Range(ev) :
              /\ pinnacle_markets[row.pinnacle_id].is_active = 1
              /\ cs500_markets[row.cs500_id].is_active = 1
        /\ \A id \in Range(listing.pinnacle) : pinnacle_markets[id].is_active = 1
        /\ \A id \in Range(listing.cs500) : cs500_markets[id].is_active = 1

\* An active reference market is mapped to a retail market that is stored
\* but inactive, and an inactive reference market is stored: the listings
\* have rows to leave out.
C11_Witness ==
    /\ \E r \in MappingJoin(pinnacle_markets, cs500_markets, match_mappings) :
          /\ pinnacle_markets[r.pinnacle_id].is_active = 1
          /\ cs500_markets[r.cs500_match_id].is_active = 0
    /\ \E id \in DOMAIN pinnacle_markets : pinnacle_markets[id].is_active = 0

(***************************************************************************)
(* C12.  A reference market that a bet references stays in the store: no   *)
(* step of the orchestration cycle deletes a reference market row while a  *)
(* bet with that pinnacle_id exists.  Refuted: the purge at the end of the *)
(* cycle looks at start time and mapping rows only.                        *)
(***************************************************************************)
C12_BetMarketRetained ==
    [][\A i \in DOMAIN bets :
          ( /\ bets[i].pinnacle_id \in DOMAIN pinnacle_markets
            /\ bets[i].pinnacle_id \notin DOMAIN pinnacle_markets' )
          => ~( \/ CycleEnds
                \/ \E fetched \in FetchResults(PinnacleBatches(now)) : CycleStart(fetched) )]_vars

(***************************************************************************)
(* C13.  The purge deletes exactly the reference markets whose start time  *)
(* is non-null and not after the current time and which have no mapping    *)
(* row; every other market is retained unchanged, and the returned count   *)
(* is the number of rows deleted.                                          *)
(***************************************************************************)
C13_PurgeExact ==
    LET purged == delete_started_matches_without_ev(pinnacle_markets, match_mappings, now)
        gone == (DOMAIN pinnacle_markets) \ (DOMAIN purged.markets)
    IN  /\ DOMAIN purged.markets \subseteq DOMAIN pinnacle_markets
        /\ \A id \in DOMAIN pinnacle_markets :
              id \in gone <=>
                 /\ pinnacle_markets[id].start_time # NULL
                 /\ pinnacle_markets[id].start_time <= now
                 /\ ~ \E m \in match_mappings : m.pinnacle_id = id
        /\ \A id \in DOMAIN purged.markets : purged.markets[id] = pinnacle_markets[id]
        /\ purged.deleted_count = Cardinality(gone)

\* A started market with a mapping row next to a market that starts later:
\* the purge has both of its retaining cases before it.
C13_Witness ==
    /\ \E id \in DOMAIN pinnacle_markets :
          /\ pinnacle_markets[id].start_time <= now
          /\ \E m \in match_mappings : m.pinnacle_id = id
    /\ \E id \in DOMAIN pinnacle_markets : pinnacle_markets[id].start_time > now

(***************************************************************************)
(* C14.  Each cycle step's failure is isolated: whatever fails in a step   *)
(* of a cycle, the later steps still run; in particular the purge, the     *)
(* last step, has run when the cycle ends, so no started reference market  *)
(* without a mapping is left.  Refuted: capture, CLV pass and purge share  *)
(* one try block.                                                          *)
(***************************************************************************)
C14_FailureIsolated ==
    [][CycleEnds =>
          \A id \in DOMAIN pinnacle_markets' :
              ~StartedWithoutMapping(pinnacle_markets', match_mappings', now', id)]_vars

(***************************************************************************)
(* C15.  When a source's fetch fails, that source's stored data is left at *)
(* its last-known state: no row of its market table changes.  Refuted for  *)
(* the retail source: the failed fetches are dropped from the batch and    *)
(* the batch, even when empty, is stored.                                  *)
(***************************************************************************)
C15_FailedFetchKeepsData ==
    [][/\ \A fetched \in FetchResults(PinnacleBatches(now)) :
             (~fetched.ok /\ CycleStart(fetched)) => pinnacle_markets' = pinnacle_markets
       /\ \A fetched \in FetchResults(Cs500Batches(inflight)) :
             ( /\ fetched.ok => DOMAIN fetched.markets = {}
               /\ CycleResume(fetched) )
             => cs500_markets' = cs500_markets]_vars

(***************************************************************************)
(* C16.  Every store operation is all-or-nothing: when update_all_pending_clv *)
(* fails part-way, the store is as it was before the operation started.    *)
(* Refuted: every update_bet_clv call commits on its own connection.       *)
(***************************************************************************)
C16_AllOrNothing ==
    [][(UpdateClv /\ update_all_pending_clv(bets, pinnacle_markets).raised)
          => bets' = bets]_vars

(***************************************************************************)
(* C17.  No two orchestration cycles run concurrently against the same     *)
(* store: the scheduled cycle and a manual scrape-all are never both       *)
(* waiting for their retail fetch.  Refuted: neither entry point checks    *)
(* for a cycle in flight.                                                  *)
(***************************************************************************)
C17_NoConcurrentCycles == ~(inflight # {} /\ manual_inflight # {})

\* The orderings of a finite set: the sequences that list each element once.
Orderings(S) ==
    { s \in [1..Cardinality(S) -> S] : \A i, j \in 1..Cardinality(S) : s[i] = s[j] => i = j }

\* The candidate lists find_best_match can be given from the stored retail
\* rows: any selection of the active rows in any order.
CandidateLists(cm) == UNION { Orderings(T) : T \in SUBSET Range(cs500_games(cm)) }

(***************************************************************************)
(* C18.  find_best_match selection rule: for any candidate list it returns *)
(* a candidate exactly when some candidate's score is strictly greater     *)
(* than the backend threshold; the returned candidate has the maximum      *)
(* score over all candidates and the returned confidence is that score;    *)
(* otherwise it returns no match with confidence 0.                        *)
(***************************************************************************)
C18_SelectionRule ==
    \A id \in DOMAIN pinnacle_markets : \A games \in CandidateLists(cs500_markets) :
        LET pg == p_game(pinnacle_markets, id)
            score(i) == ai_match_score(backend, pg, games[i])
            r == find_best_match(backend, pg, games)
        IN  /\ (r.game # NoMatch) <=> (\E i \in DOMAIN games : score(i) > Threshold(backend))
            /\ r.game # NoMatch =>
                  /\ \E i \in DOMAIN games : games[i] = r.game /\ score(i) = r.score
                  /\ \A j \in DOMAIN games : score(j) <= r.score
            /\ r.game = NoMatch => r.score = 0

\* A matching pass has stored a mapping, and some candidate list holds a
\* candidate above the threshold after a better one and one below it.
C18_Witness ==
    /\ match_mappings # {}
    /\ \E id \in DOMAIN pinnacle_markets : \E games \in CandidateLists(cs500_markets) :
          LET pg == p_game(pinnacle_markets, id)
              score(i) == ai_match_score(backend, pg, games[i])
          IN  /\ Len(games) >= 3
              /\ \E i, j, k \in DOMAIN games :
                    /\ i < j
                    /\ score(i) > score(j)
                    /\ score(j) > Threshold(backend)
                    /\ score(k) <= Threshold(backend)

(***************************************************************************)
(* C19.  Matcher selection is order-independent: find_best_match returns   *)
(* the same candidate and confidence for every permutation of the          *)
(* candidate list.  Refuted: of two candidates with equal maximal score    *)
(* the first in the list is returned.                                      *)
(***************************************************************************)
C19_OrderIndependent ==
    \A id \in DOMAIN pinnacle_markets : \A games \in CandidateLists(cs500_markets) :
        \A perm \in Orderings(Range(games)) :
            find_best_match(backend, p_game(pinnacle_markets, id), games)
              = find_best_match(backend, p_game(pinnacle_markets, id), perm)

(***************************************************************************)
(* C20.  The matcher canonicalizes team names before scoring: a reference  *)
(* market and a retail market whose home names and whose away names have   *)
(* the same canonical token score at least 0.6 and are matched, under      *)
(* either backend.  Refuted: the scoring functions never call              *)
(* canonical_team.                                                         *)
(***************************************************************************)
C20_CanonicalNamesMatch ==
    \A id \in DOMAIN pinnacle_markets : \A g \in Range(cs500_games(cs500_markets)) :
        LET pg == p_game(pinnacle_markets, id)
        IN  ( /\ canonical_team(pg.home_team) = canonical_team(g.home_team)
              /\ canonical_team(pg.away_team) = canonical_team(g.away_team) )
            => /\ ai_match_score(backend, pg, g) >= ApiThreshold
               /\ find_best_match(backend, pg, << g >>).game = g

(***************************************************************************)
(* C21.  The match score is mean(home similarity, away similarity) + time  *)
(* bonus + sport bonus, capped at 1.0; the sport bonus of 0.1 is added     *)
(* only if both inferred sport tags agree and are non-null; the time bonus *)
(* is 0.2 within 1 hour, 0.1 within 2 hours, else 0.  Refuted: the         *)
(* fallback ai_match_score returns the mean alone.                         *)
(***************************************************************************)
C21_ScoreFormula ==
    \A id \in DOMAIN pinnacle_markets : \A g \in Range(cs500_games(cs500_markets)) :
        LET pg == p_game(pinnacle_markets, id)
            mean == (team_similarity(backend, pg.home_team, g.home_team)
                     + team_similarity(backend, pg.away_team, g.away_team)) \div 2
            diff == Abs(pg.start_time - g.start_time)
            time_bonus == IF diff < HourMinutes THEN TimeBonusNear
                          ELSE IF diff < TwoHoursMinutes THEN TimeBonusFar ELSE 0
            sport_bonus == IF /\ infer_sport(pg.event) = infer_sport(g.event_name)
                              /\ infer_sport(pg.event) # NoSport
                           THEN SportBonus ELSE 0
        IN  ai_match_score(backend, pg, g) = Min(ScoreCap, mean + time_bonus + sport_bonus)

(***************************************************************************)
(* C22.  In every row of the EV projection, best_bet is non-null exactly   *)
(* when at least one side's EV percentage is positive; when non-null it    *)
(* names the side with the higher EV percentage and best_ev_pct is that    *)
(* side's EV; when null, best_ev_pct is the higher of the two sides' EV    *)
(* percentages.                                                            *)
(***************************************************************************)
C22_BestBet ==
    \A row \in Range(get_matched_markets(pinnacle_markets, cs500_markets, match_mappings)) :
        LET ev == matched_market_ev(pinnacle_markets, cs500_markets, row)
            h == EvPct(pinnacle_markets[row.pinnacle_id].home_fair_odds,
                       cs500_markets[row.cs500_id].home_odds)
            a == EvPct(pinnacle_markets[row.pinnacle_id].away_fair_odds,
                       cs500_markets[row.cs500_id].away_odds)
        IN  /\ (ev.best_bet # NoBet) <=> (h.num > 0 \/ a.num > 0)
            /\ ev.best_bet = "home" => ev.best_ev_pct = h /\ ~RatGreater(a, h)
            /\ ev.best_bet = "away" => ev.best_ev_pct = a /\ ~RatGreater(h, a)
            /\ ev.best_bet = NoBet =>
                  /\ ev.best_ev_pct \in {h, a}
                  /\ ~RatGreater(h, ev.best_ev_pct)
                  /\ ~RatGreater(a, ev.best_ev_pct)

\* The projection has a row with a best bet and a row whose best side has
\* EV exactly 0 and so no best bet.
C22_Witness ==
    LET rows == Range(get_matched_markets(pinnacle_markets, cs500_markets, match_mappings))
    IN  /\ \E row \in rows :
              matched_market_ev(pinnacle_markets, cs500_markets, row).best_bet = "home"
        /\ \E row \in rows :
              LET ev == matched_market_ev(pinnacle_markets, cs500_markets, row)
              IN  ev.best_bet = NoBet /\ ev.best_ev_pct.num = 0

\* The prices a row's side can take: the reference quotes and the retail
\* odds of the listings.
SideInputs ==
    { [fair |-> q.home_fair_odds, mult |-> q.home_mult_odds, retail |-> Cs500Listing(id).home_odds]
        : q \in Quotes, id \in MatcherCs500Ids }
    \cup { [fair |-> q.away_fair_odds, mult |-> q.away_mult_odds, retail |-> Cs500Listing(id).away_odds]
        : q \in Quotes, id \in MatcherCs500Ids }

(***************************************************************************)
(* C23.  EV computation is side-consistent: in every row of the EV         *)
(* projection the home EV columns, power and proportional, are unchanged   *)
(* by any change of the away-side inputs of the row, and the away EV       *)
(* columns by any change of the home-side inputs.                          *)
(***************************************************************************)
C23_SideConsistent ==
    \A row \in Range(get_matched_markets(pinnacle_markets, cs500_markets, match_mappings)) :
        LET p == pinnacle_markets[row.pinnacle_id]
            c == cs500_markets[row.cs500_id]
            ev == matched_market_ev(pinnacle_markets, cs500_markets, row)
        IN  \A x \in SideInputs :
              LET away_changed == EvColumns(p.home_fair_odds, x.fair, p.home_mult_odds, x.mult,
                                            c.home_odds, x.retail)
                  home_changed == EvColumns(x.fair, p.away_fair_odds, x.mult, p.away_mult_odds,
                                            x.retail, c.away_odds)
              IN  /\ away_changed.home_ev = ev.home_ev
                  /\ away_changed.home_ev_pct = ev.home_ev_pct
                  /\ away_changed.home_mult_ev = ev.home_mult_ev
                  /\ away_changed.home_mult_ev_pct = ev.home_mult_ev_pct
                  /\ home_changed.away_ev = ev.away_ev
                  /\ home_changed.away_ev_pct = ev.away_ev_pct
                  /\ home_changed.away_mult_ev = ev.away_mult_ev
                  /\ home_changed.away_mult_ev_pct = ev.away_mult_ev_pct

\* The projection has a row, and changing its home-side inputs does change
\* its home EV.
C23_Witness ==
    \E row \in Range(get_matched_markets(pinnacle_markets, cs500_markets, match_mappings)) :
        LET p == pinnacle_markets[row.pinnacle_id]
            c == cs500_markets[row.cs500_id]
            ev == matched_market_ev(pinnacle_markets, cs500_markets, row)
        IN  \E x \in SideInputs :
              /\ EvColumns(x.fair, p.away_fair_odds, x.mult, p.away_mult_odds,
                           x.retail, c.away_odds).home_ev # ev.home_ev
              /\ EvColumns(x.fair, p.away_fair_odds, x.mult, p.away_mult_odds,
                           x.retail, c.away_odds).home_mult_ev # ev.home_mult_ev

(***************************************************************************)
(* C24.  Placing a bet that references a reference market id not present   *)
(* in the store is surfaced as a failure and the set of bets is left       *)
(* unchanged.  Refuted: the foreign key of bets.pinnacle_id is declared    *)
(* but never enforced, so the bet is inserted.                             *)
(***************************************************************************)
C24_UnknownMarketRejected ==
    [][\A bet_data \in AnyOddsRequests :
          (bet_data.pinnacle_id \notin DOMAIN pinnacle_markets /\ PlaceBetAnyOdds(bet_data))
          => bets' = bets]_vars

(***************************************************************************)
(* C25.  When CLV is requested for a bet whose side has no closing odds on *)
(* its reference market, or whose market or bet row does not exist,        *)
(* update_bet_clv returns False and leaves the bet's closing_odds, clv and *)
(* clv_percentage unchanged; it returns True only after setting all three  *)
(* from a non-null closing odds for the bet's own side.                    *)
(***************************************************************************)
C25_NotReadyIsNotAnError ==
    \A bet_id \in 1..(MaxBets + 1) :
        LET r == update_bet_clv(bets, pinnacle_markets, bet_id)
            known == bet_id \in DOMAIN bets /\ bets[bet_id].pinnacle_id \in DOMAIN pinnacle_markets
            own == IF bets[bet_id].bet_side = "home"
                   THEN pinnacle_markets[bets[bet_id].pinnacle_id].home_closing_odds
                   ELSE pinnacle_markets[bets[bet_id].pinnacle_id].away_closing_odds
        IN  /\ (~known \/ own = NULL) => ~r.updated /\ ~r.raised /\ r.bets = bets
            /\ r.updated =>
                  /\ known /\ own # NULL
                  /\ r.bets[bet_id].closing_odds = own
                  /\ r.bets[bet_id].clv # NULL
                  /\ r.bets[bet_id].clv_percentage # NULL
                  /\ \A other \in DOMAIN bets : other # bet_id => r.bets[other] = bets[other]

\* A bet got its CLV from the closing odds of its side, and its market has
\* since been stored again without closing odds: the update is not ready.
C25_Witness ==
    /\ Len(bets) >= 1
    /\ bets[1].closing_odds # NULL
    /\ bets[1].clv # NULL
    /\ "p1" \in DOMAIN pinnacle_markets
    /\ pinnacle_markets["p1"].home_closing_odds = NULL
    /\ ~update_bet_clv(bets, pinnacle_markets, 1).updated

(***************************************************************************)
(* C26.  A single bad bet-update request returns a client error without    *)
(* affecting other bets: an update for a bet id that does not exist, or    *)
(* with a result other than win/loss/void, changes no bet.  Refuted: the   *)
(* result is not validated and is stored with status void.                 *)
(***************************************************************************)
C26_BadUpdateRejected ==
    [][\A bet_id \in 1..(MaxFaultBets + 1), update \in BetUpdateRequests :
          ( /\ bet_id \notin DOMAIN bets \/ update.result \notin {"win", "loss", "void"}
            /\ UpdateBet(bet_id, update) )
          => /\ bets' = bets
             /\ update_bet(bets, bet_id, update).status_code # 200]_vars

Sign(x) == IF x > 0 THEN 1 ELSE IF x < 0 THEN 0 - 1 ELSE 0

ImpliedSumIsOne(h, a) == 1000000 * Abs(100 * (h + a) - h * a) <= h * a

(***************************************************************************)
(* C30.  The proportional and the power de-vig each yield fair             *)
(* probabilities for home and away that sum to 1.0 within 1e-6, and this   *)
(* still holds for the probabilities and the fair odds stored for a        *)
(* reference market after rounding.  Refuted for the stored fair odds:     *)
(* rounded to 2 places, their implied probabilities no longer sum to 1.    *)
(***************************************************************************)
C30_FairProbabilitiesSumToOne ==
    /\ \A r \in RawPrices :
          LET mult == multiplicative_devig(american_to_decimal(r.home), american_to_decimal(r.away))
              power == power_method_devig(american_to_decimal(r.home), american_to_decimal(r.away))
          IN  /\ mult.fair_home.den * mult.fair_away.num + mult.fair_away.den * mult.fair_home.num
                   = mult.fair_home.num * mult.fair_away.num
              /\ Abs(power.home_prob + power.away_prob - 1000000000) <= 1000
    /\ \A id \in DOMAIN pinnacle_markets :
          /\ Abs(pinnacle_markets[id].home_fair_prob + pinnacle_markets[id].away_fair_prob - 1000000) <= 1
          /\ Abs(pinnacle_markets[id].home_mult_prob + pinnacle_markets[id].away_mult_prob - 1000000) <= 1
          /\ ImpliedSumIsOne(pinnacle_markets[id].home_fair_odds, pinnacle_markets[id].away_fair_odds)
          /\ ImpliedSumIsOne(pinnacle_markets[id].home_mult_odds, pinnacle_markets[id].away_mult_odds)

(***************************************************************************)
(* C31.  american_to_decimal is monotonic: for positive prices x < y the   *)
(* result for x is smaller than the result for y; for negative prices a    *)
(* more negative input gives a result closer to 1.0 and never below 1.0;   *)
(* the input 0 yields no value.  As stated (strictly closer) it is refuted *)
(* by the rounding to 2 places: -107 and -108 both give 1.93.              *)
(***************************************************************************)
C31_Monotonic ==
    decimal_pair # << >> =>
        LET x == price_pair[1]
            y == price_pair[2]
            fx == decimal_pair[1]
            fy == decimal_pair[2]
        IN  /\ fx.raised <=> x = 0
            /\ (0 < x /\ x < y) => fx.value < fy.value
            /\ (y < x /\ x < 0) => fy.value >= 100 /\ fy.value - 100 < fx.value - 100

\* C31 as it holds: for negative prices a more negative input gives a
\* result that is at least 1.0 and not farther from 1.0; the rest unchanged.
C31_MonotonicUpToRounding ==
    decimal_pair # << >> =>
        LET x == price_pair[1]
            y == price_pair[2]
            fx == decimal_pair[1]
            fy == decimal_pair[2]
        IN  /\ fx.raised <=> x = 0
            /\ (0 < x /\ x < y) => fx.value < fy.value
            /\ (y < x /\ x < 0) => fy.value >= 100 /\ fy.value - 100 <= fx.value - 100

C31_Witness ==
    /\ price_pair = << 0 - 107, 0 - 108 >>
    /\ decimal_pair # << >>
    /\ decimal_pair[1].value = 193
    /\ decimal_pair[2].value = 193

\* Two distinct reference markets are mapped to the same retail market.
SharedRetail(mm) ==
    \E r1 \in mm, r2 \in mm :
        r1.pinnacle_id # r2.pinnacle_id /\ r1.cs500_match_id = r2.cs500_match_id

\* The mapping rows one matching pass writes into an empty mapping table.
OnePass == match_markets(backend, pinnacle_markets, cs500_markets, {}).mappings

(***************************************************************************)
(* C32.  The matcher enforces no uniqueness on the retail side: a pass     *)
(* maps every active reference market to its own best candidate, whether   *)
(* or not another reference market claims the same retail market, so two   *)
(* reference markets mapped to one retail id are reachable by one pass;    *)
(* and once two reference markets share a retail market, no operation of   *)
(* the cycle removes a mapping row.                                        *)
(***************************************************************************)
C32_RetailNotUnique ==
    /\ [](\A id \in DOMAIN pinnacle_markets :
            LET found == find_best_match(backend, p_game(pinnacle_markets, id),
                                         cs500_games(cs500_markets))
            IN  (/\ pinnacle_markets[id].is_active = 1
                 /\ found.game # NoMatch
                 /\ found.score > ApiThreshold)
                => [pinnacle_id |-> id, cs500_match_id |-> found.game.match_id,
                    confidence_score |-> found.score] \in OnePass)
    /\ [][SharedRetail(match_mappings) => match_mappings \subseteq match_mappings']_vars

C32_Witness ==
    /\ SharedRetail(match_mappings)
    /\ match_mappings = OnePass

\* The candidate find_best_match returns for a stored reference market.
Found(id) ==
    find_best_match(backend, p_game(pinnacle_markets, id), cs500_games(cs500_markets))

(***************************************************************************)
(* C33.  Every stored mapping has a confidence in [0,1] above the          *)
(* acceptance threshold of the backend in use; the orchestration layer's   *)
(* check confidence > 0.6 never rejects a candidate find_best_match        *)
(* returned, so a pass stores a mapping for a reference market exactly     *)
(* when find_best_match returns a candidate for it.                        *)
(***************************************************************************)
C33_ConfidenceAboveThreshold ==
    /\ \A r \in match_mappings :
          /\ 0 <= r.confidence_score /\ r.confidence_score <= 1000
          /\ r.confidence_score > Threshold(backend)
    /\ \A id \in DOMAIN pinnacle_markets :
          Found(id).game # NoMatch => Found(id).score > ApiThreshold
    /\ { r.pinnacle_id : r \in OnePass }
         = { id \in DOMAIN pinnacle_markets :
               pinnacle_markets[id].is_active = 1 /\ Found(id).game # NoMatch }

C33_Witness ==
    /\ backend = "fallback"
    /\ \E r \in match_mappings : r.confidence_score < 1000
    /\ \E id \in DOMAIN pinnacle_markets :
          /\ pinnacle_markets[id].is_active = 1
          /\ Found(id).game = NoMatch
          /\ cs500_games(cs500_markets) # << >>

\* The pair of odds one de-vig method gave a stored row, if it is present.
MethodPair(row) ==
    IF Truthy(row.home_mult_odds) /\ Truthy(row.away_mult_odds)
    THEN << row.home_mult_odds, row.away_mult_odds >>
    ELSE << row.home_fair_odds, row.away_fair_odds >>

(***************************************************************************)
(* C34.  On capture the closing odds pair is a snapshot of the market's    *)
(* current odds from one method: the proportional pair if it is present,   *)
(* otherwise the power pair; home and away closing odds never come from    *)
(* different methods, and the capture timestamp is set in the same step.   *)
(***************************************************************************)
C34_ClosingFromOneMethod ==
    \A id \in DOMAIN pinnacle_markets :
        LET row == pinnacle_markets[id]
            captured == capture_closing_lines(pinnacle_markets, now).markets[id]
        IN  /\ ClosingDue(row, now) =>
                  /\ << captured.home_closing_odds, captured.away_closing_odds >> = MethodPair(row)
                  /\ captured.closing_captured_at = now
            /\ HasClosing(row) =>
                  /\ << row.home_closing_odds, row.away_closing_odds >> = MethodPair(row)
                  /\ row.closing_captured_at # NULL

C34_Witness ==
    \E id \in DOMAIN pinnacle_markets :
        /\ pinnacle_markets[id].home_mult_odds = NULL
        /\ pinnacle_markets[id].home_closing_odds = pinnacle_markets[id].home_fair_odds
        /\ pinnacle_markets[id].away_closing_odds = pinnacle_markets[id].away_fair_odds
        /\ pinnacle_markets[id].closing_captured_at # NULL

\* The values are all NULL or all set.
AllOrNone(values) == (\A v \in values : v = NULL) \/ (\A v \in values : v # NULL)

(***************************************************************************)
(* C35.  In every reachable store state, for every reference market        *)
(* home_closing_odds, away_closing_odds and closing_captured_at are all    *)
(* null or all non-null, and for every bet closing_odds, clv and           *)
(* clv_percentage are all null or all non-null.                            *)
(***************************************************************************)
C35_ClosingFieldsTogether ==
    /\ \A id \in DOMAIN pinnacle_markets :
          AllOrNone({ pinnacle_markets[id].home_closing_odds,
                      pinnacle_markets[id].away_closing_odds,
                      pinnacle_markets[id].closing_captured_at })
    /\ \A bet_id \in DOMAIN bets :
          AllOrNone({ bets[bet_id].closing_odds, bets[bet_id].clv, bets[bet_id].clv_percentage })

C35_Witness ==
    /\ \E id \in DOMAIN pinnacle_markets : pinnacle_markets[id].closing_captured_at # NULL
    /\ \E id \in DOMAIN pinnacle_markets : pinnacle_markets[id].closing_captured_at = NULL
    /\ \E bet_id \in DOMAIN bets : bets[bet_id].clv # NULL

(***************************************************************************)
(* C36.  Mapping referential integrity: after any sequence of store        *)
(* operations every mapping row refers to a reference market row and a     *)
(* retail market row that both exist in the store.  Refuted:               *)
(* clear_archived_matches deletes started reference markets and leaves     *)
(* their mapping rows.                                                     *)
(***************************************************************************)
C36_MappingsReferToRows ==
    \A r \in match_mappings :
        /\ r.pinnacle_id \in DOMAIN pinnacle_markets
        /\ r.cs500_match_id \in DOMAIN cs500_markets

\* The reference market ids of the two listings, and the mapping rows of a
\* reference market.
UnmatchedIds == Range(get_unmatched_markets(pinnacle_markets, cs500_markets, match_mappings).pinnacle)

ProjectedIds ==
    { row.pinnacle_id : row \in Range(get_matched_markets(pinnacle_markets, cs500_markets, match_mappings)) }

RowsOf(mm, id) == { r \in mm : r.pinnacle_id = id }

\* An active reference market all of whose mapping rows lead to a retail
\* market that is inactive.
Stranded(id) ==
    /\ pinnacle_markets[id].is_active = 1
    /\ RowsOf(match_mappings, id) # {}
    /\ \A r \in RowsOf(match_mappings, id) :
          r.cs500_match_id \in DOMAIN cs500_markets => cs500_markets[r.cs500_match_id].is_active = 0

(***************************************************************************)
(* C37.  An active reference market is in the unmatched listing exactly    *)
(* when it has no mapping row, and in the EV projection exactly when it    *)
(* has a mapping to an active retail market; an active reference market    *)
(* whose mapped retail market has become inactive is in neither listing,   *)
(* and a matching pass leaves its mapping rows as they are.                *)
(***************************************************************************)
C37_StrandedMarkets ==
    \A id \in DOMAIN pinnacle_markets :
        pinnacle_markets[id].is_active = 1 =>
            /\ id \in UnmatchedIds <=> RowsOf(match_mappings, id) = {}
            /\ id \in ProjectedIds <=>
                  \E r \in RowsOf(match_mappings, id) :
                      /\ r.cs500_match_id \in DOMAIN cs500_markets
                      /\ cs500_markets[r.cs500_match_id].is_active = 1
            /\ Stranded(id) =>
                  /\ id \notin UnmatchedIds
                  /\ id \notin ProjectedIds
                  /\ RowsOf(match_markets(backend, pinnacle_markets, cs500_markets,
                                          match_mappings).mappings, id)
                       = RowsOf(match_mappings, id)

C37_Witness ==
    \E id \in DOMAIN pinnacle_markets :
        /\ Stranded(id)
        /\ \E c \in DOMAIN cs500_markets :
              /\ cs500_markets[c].is_active = 1
              /\ Found(id).game # NoMatch

(***************************************************************************)
(* C38.  Scheduler state machine: after any sequence of start, stop and    *)
(* update-interval requests at most one auto_scrape job is registered,     *)
(* scheduler_config["enabled"] is true exactly when a job is registered,   *)
(* and updating the interval while disabled registers no job.  Refuted: a  *)
(* start request whose trigger cannot be built removes the job and leaves  *)
(* enabled true.                                                           *)
(***************************************************************************)
C38_EnabledIffJob ==
    /\ Cardinality({ i \in DOMAIN jobs : jobs[i].id = "auto_scrape" }) <= 1
    /\ scheduler_config.enabled <=> jobs # << >>
    /\ ~scheduler_config.enabled =>
          \A interval_minutes \in IntervalRequests :
              update_scheduler_interval(scheduler_config, jobs, interval_minutes).jobs = << >>

\* What place_bet stored of the request.
Snapshot(bet) ==
    [pinnacle_id |-> bet.pinnacle_id, bet_side |-> bet.bet_side, odds |-> bet.odds,
     stake |-> bet.stake, ev_percentage |-> bet.ev_percentage, fair_odds |-> bet.fair_odds]

(***************************************************************************)
(* C39.  Bets are never deleted and their placement-time snapshot is never *)
(* rewritten: no operation removes a bet row or changes its pinnacle_id,   *)
(* bet_side, odds, stake or EV fields after place_bet.                     *)
(***************************************************************************)
C39_BetsKept ==
    [][\A bet_id \in DOMAIN bets :
          /\ bet_id \in DOMAIN bets'
          /\ Snapshot(bets'[bet_id]) = Snapshot(bets[bet_id])]_vars

C39_Witness ==
    /\ pinnacle_markets = << >>
    /\ match_mappings = {}
    /\ bets # << >>
    /\ bets[1].clv # NULL

====
